---- MODULE Spec2Model ----
(***************************************************************************)
(* Build-and-deploy pipeline of thakur-deploy: Control Plane (control-api),*)
(* Build Worker, Deploy Engine (TypeScript and Go implementations) and     *)
(* Webhook Ingress.                                                        *)
(*                                                                         *)
(* The module holds one set of variables (database tables, engine file     *)
(* system and processes, in-flight requests) and one specification per     *)
(* subsystem:                                                              *)
(*   SpecDeploy   activateBuild / stop in the Control Plane together with  *)
(*                the Deploy Engine's activation and stop sequences        *)
(*   SpecBuild    build records, the queue, the worker's Builder.execute   *)
(*   SpecWebhook  push deliveries and build creation                       *)
(*   SpecProject  project creation and deletion                            *)
(*   SpecLogs     the worker's LogStreamer and POST /builds/:id/logs       *)
(*   SpecFanout   persist-then-broadcast of log messages to sockets        *)
(*   SpecInstall  installation events of the GitHub App                    *)
(*   SpecClone    what two runs of the worker log for different tokens     *)
(*   SpecLaunch   the environment an application is started with           *)
(*   SpecRewrite  the worker's rewrite of package-manager commands         *)
(*   SpecSubdomain the Deploy Engine's test of a requested subdomain       *)
(*   SpecRetry    the Deploy Engine's retry helper                         *)
(*   SpecDocker   containers and their log followers in the Go engine      *)
(*   SpecBuildFair is SpecBuild with weak fairness of the worker's steps.  *)
(* Every await of the source is a step boundary: requests interleave at    *)
(* awaits and nowhere else.                                                *)
(***************************************************************************)
EXTENDS Integers, Sequences, FiniteSets, TLC

(***************************************************************************)
(* Bounds                                                                  *)
(***************************************************************************)
\* number of activateBuild / stop requests issued to the Control Plane
MaxCalls == 2
\* number of distinct millisecond timestamps a temp symlink name can carry
MaxTmp == 2

\* number of build records created
MaxBuilds == 2
\* number of Builder.execute invocations in the worker process
MaxExecs == 2
\* number of push deliveries
MaxDeliveries == 2
\* number of distinct commit SHAs pushed
MaxSha == 2
\* length of a build command, in lexemes
MaxCmdLen == 5
\* length of a requested subdomain, in characters
MaxSubLen == 3
\* largest `retries` option given to the retry helper
MaxTries == 3
\* largest `timeoutMs` option given to the retry helper, in clock ticks
MaxBudget == 2
\* longest time one invocation of fn takes, in clock ticks
MaxFnTime == 2
\* number of Deploy, Stop and Cleanup calls to the DockerService
MaxDockerReqs == 3
\* number of project creation and deletion requests
MaxPReqs == 2
\* number of ports above the base port that a creation probes
MaxPortSpan == 2
\* number of log entries the worker streams for a build
MaxEntries == 3
\* number of LogStreamer.flush invocations
MaxFlushes == 2
\* number of requests of other clients to POST /builds/:id/logs
MaxRawPosts == 1
\* number of connected sockets
MaxSockets == 2
\* number of POST /builds/:id/logs requests whose broadcast is followed
MaxLogReqs == 2
\* number of GitHub App installations
MaxInstallations == 2
\* number of installation events delivered to POST /github/webhook
MaxInstallEvents == 2

CallIds == 1..MaxCalls
ExecIds == 1..MaxExecs
DeliveryIds == 1..MaxDeliveries
PReqIds == 1..MaxPReqs
FlushIds == 1..MaxFlushes
\* payload.after: a commit SHA, or 0 when the payload carries none
Shas == 0..MaxSha
TmpNames == 1..MaxTmp
Sockets == 1..MaxSockets
LogReqIds == 1..MaxLogReqs
\* installation.id of a payload
InstallationIds == 1..MaxInstallations
InstallEventIds == 1..MaxInstallEvents

(***************************************************************************)
(* Projects of the deployment scenario: p1 is a backend (never static),    *)
(* p2 is a vite project (always served statically).                        *)
(***************************************************************************)
Projects == {"p1", "p2"}

AppTypeOf(p) == IF p = "p1" THEN "express" ELSE "vite"

\* FRAMEWORKS[appType].isStaticBuild / Frameworks[appType].IsStaticBuild
shouldUseStaticServer(appType) == appType = "vite"

\* FRAMEWORKS[appType].requiresInstall / Frameworks[appType].RequiresInstall
requiresInstall(appType) == appType \in {"nextjs", "express", "hono", "elysia"}

\* rows of table projects in SELECT order; both are connected to repository
\* 42 on branch main, p2 has auto_deploy switched off
ProjectRows == <<"p1", "p2">>

BranchOf(p) == "main"

AutoDeploy(p) == p = "p1"

Branches == {"main", "dev"}

\* const basePort = 8000
BasePort == 8000

PortRange == BasePort..(BasePort + MaxPortSpan)

\* the projects table when both projects exist
SeededProjects ==
  [p \in Projects |-> [exists |-> TRUE,
                       port |-> IF p = "p1" THEN BasePort ELSE BasePort + 1]]

\* type LogLevel
LogLevels == {"info", "warning", "error", "success", "deploy"}

\* the level field of a request body: absent, a LogLevel, or another string
BodyLevels == LogLevels \cup {"absent", "debug"}

\* levels the build worker streams
StreamLevels == {"info", "error"}

Terminal == {"success", "failed"}

VARIABLES
  mode,            \* Deploy Engine build: "ts" (deploy-engine), "go" (deploy-engine-go)
  builds,          \* table builds: sequence of rows, id = index
  deployments,     \* table deployments: sequence of rows, id = index
  calls,           \* Control Plane requests activateBuild / stop, by call id
  artifacts,       \* build ids whose <artifacts>/<id>.tar.gz exists
  extracted,       \* build ids whose extract directory exists
  current,         \* project -> build id the `current` symlink points to, 0 = no link
  currentBuildId,  \* project -> content of the current_build_id file, 0 = no file
  tmpLink,         \* project -> temp name -> build id the temp symlink points to, 0 = absent
  pidFile,         \* project -> pid recorded in the pid file, 0 = no file
  listener,        \* project -> pid of the process accepting connections on the port, 0 = none
  buildLogs,       \* table build_logs: set of persisted entries
  jobs,            \* queue jobs by build id (the job id is the build id)
  execs,           \* invocations of Builder.execute in the worker process
  creates,         \* BuildService.create requests that have not returned, by build id
  deliveries,      \* push deliveries handled by POST /github/webhook
  projects,        \* table projects: per project id, whether the row exists and its port
  envVars,         \* table environment_variables
  preqs,           \* ProjectService.create and ProjectService.delete requests
  streamer,        \* LogStreamer of the worker: the buffer of a build and its timer
  flushes,         \* LogStreamer.flush invocations
  posts,           \* POST /builds/:id/logs requests in the order they were issued
  rooms,           \* socket -> build ids b whose room `build:<b>` the socket joined
  inbox,           \* socket -> build_log messages the socket received, in order
  published,       \* history of WebSocketService.broadcast calls with the room's members
  logReqs,         \* POST /builds/:id/logs requests of the Control Plane, by request id
  queueEvents,     \* queue events not yet handed to the listeners of BuildQueue
  installations,   \* table github_installations: the github_installation_id of its rows
  installOf,       \* project -> projects.github_installation_id, 0 = NULL
  installEvents,   \* installation events handled by POST /github/webhook
  webhookSecret,   \* process.env.GITHUB_WEBHOOK_SECRET, 0 = not set
  cloneRuns,       \* two runs of Builder.execute for the same job: position, token, log
  gitEnv,          \* what both runs meet: outcome of the token request and of git clone
  launch,          \* a start of the application: the environments given and the one built
  rewrite,         \* a build command and its package-manager rewrites
  subdomainCheck,  \* a subdomain and the answer of IsSubdomainAllowed
  retryRun,        \* a call of the Deploy Engine's retry helper
  docker           \* DockerService of the Go engine: followers, containers, requests

deployVars == <<mode, builds, deployments, calls, artifacts, extracted, current,
                currentBuildId, tmpLink, pidFile, listener>>

\* variables the activation and stop steps never touch
\* the tables and requests of project creation and deletion
projectVars == <<projects, envVars, preqs>>

\* the log streamer of the worker and its requests
workerLogVars == <<streamer, flushes, posts>>

\* the sockets and the requests that publish to them
fanoutVars == <<rooms, inbox, published, logReqs, queueEvents>>

\* the installations table, its references and the events that change them
installVars == <<installations, installOf, installEvents, webhookSecret>>

\* the runs of the worker that are compared for what they log
cloneVars == <<cloneRuns, gitEnv>>

\* inputs and results of the functions that are applied on their own
functionVars == <<launch, rewrite, subdomainCheck, retryRun, docker>>

\* variables of the subsystems around the pipeline
peripheryVars == <<fanoutVars, installVars, cloneVars, functionVars>>

\* the same without one subsystem
peripheryButFanout == <<installVars, cloneVars, functionVars>>
peripheryButInstall == <<fanoutVars, cloneVars, functionVars>>
peripheryButClone == <<fanoutVars, installVars, functionVars>>
peripheryButFunctions == <<fanoutVars, installVars, cloneVars>>

notDeployVars == <<buildLogs, jobs, execs, creates, deliveries, projects, envVars, preqs,
                   streamer, flushes, posts, peripheryVars>>

\* the files and processes of the Deploy Engine and the requests to it
engineVars == <<mode, calls, extracted, current, currentBuildId, tmpLink,
                pidFile, listener>>

\* variables the build pipeline never touches
notBuildVars == <<mode, calls, extracted, current, currentBuildId, tmpLink,
                  pidFile, listener, deliveries, projects, envVars, preqs,
                  streamer, flushes, posts, peripheryVars>>

vars == <<mode, builds, deployments, calls, artifacts, extracted, current,
          currentBuildId, tmpLink, pidFile, listener, buildLogs, jobs, execs,
          creates, deliveries, projects, envVars, preqs, streamer, flushes, posts,
          peripheryVars>>

NoLogReq == [pc |-> "idle", build |-> 0, level |-> "absent", message |-> ""]

\* no socket has joined a room and nothing was published
FanoutIdle ==
  /\ rooms = [s \in Sockets |-> {}]
  /\ inbox = [s \in Sockets |-> << >>]
  /\ published = << >>
  /\ logReqs = [q \in LogReqIds |-> NoLogReq]
  /\ queueEvents = << >>

NoInstallEvent == [pc |-> "idle", action |-> "none", installation |-> 0,
                   status |-> 0, bad |-> FALSE]

\* no installation is registered
InstallIdle ==
  /\ installations = {}
  /\ installOf = [p \in Projects |-> 0]
  /\ installEvents = [w \in InstallEventIds |-> NoInstallEvent]
  /\ webhookSecret = 1

\* the two runs that are compared
Runs == {1, 2}

\* installation access tokens
Tokens == {1, 2}

NoRun == [pc |-> "idle", token |-> 0, error |-> [text |-> "", cred |-> 0], logs |-> << >>]

\* no run is being compared
CloneIdle ==
  /\ cloneRuns = [r \in Runs |-> NoRun]
  /\ gitEnv = [auth |-> "ok", clone |-> "ok", quotesUrl |-> FALSE]

\* an environment that sets neither PORT nor NODE_ENV
NoEnv == [PORT |-> "unset", NODE_ENV |-> "unset"]

NoLaunch == [osEnv |-> NoEnv, envVars |-> NoEnv, engine |-> "none", env |-> << >>]

NoRewrite == [command |-> << >>, applied |-> 0, once |-> << >>, twice |-> << >>]

NoCheck == [sub |-> << >>, checked |-> FALSE, allowed |-> FALSE]

NoRetry == [pc |-> "idle", retries |-> 0, timeoutMs |-> 0, attempt |-> 0, elapsed |-> 0,
            invoked |-> 0, late |-> FALSE, succeeded |-> 0, lastErr |-> 0,
            outcome |-> "none", thrown |-> "none"]

\* the retry helper is not called
RetryIdle == retryRun = NoRetry

DockerReqIds == 1..MaxDockerReqs

NoDockerReq == [pc |-> "idle", op |-> "none", project |-> "none", cancel |-> 0, left |-> 0]

\* no container, no follower, no request to DockerService
NoDocker == [container |-> [p \in Projects |-> FALSE],
             followers |-> << >>,
             logStreamers |-> [p \in Projects |-> 0],
             reqs |-> [r \in DockerReqIds |-> NoDockerReq],
             recovered |-> FALSE]

DockerIdle == docker = NoDocker

\* no application is started
LaunchIdle == launch = NoLaunch

\* no command is rewritten
RewriteIdle == rewrite = NoRewrite

\* no subdomain is checked
CheckIdle == subdomainCheck = NoCheck

PeripheryIdle ==
  /\ FanoutIdle /\ InstallIdle /\ CloneIdle /\ LaunchIdle /\ RewriteIdle /\ CheckIdle
  /\ RetryIdle /\ DockerIdle

(***************************************************************************)
(* Control Plane and Deploy Engine: activation and stop                    *)
(***************************************************************************)
NoExec == [build |-> 0, origin |-> "none", pc |-> "idle", threw |-> FALSE,
           activation |-> "none"]

NoDelivery == [pc |-> "idle", branch |-> "none", sha |-> 0, connected |-> << >>,
               idx |-> 0, build |-> 0, triggered |-> 0, skipped |-> 0,
               errors |-> 0, created |-> {}, replays |-> {}]

\* buffers[buildId]: entries are numbered in the order they were streamed
NoBuffer == [entries |-> << >>, timeout |-> FALSE, streamed |-> 0, finishing |-> FALSE]

NoFlush == [pc |-> "idle", groups |-> << >>, idx |-> 0, final |-> FALSE]

NoProject == [exists |-> FALSE, port |-> 0]

NoPReq == [kind |-> "none", pc |-> "idle", project |-> "none", env |-> FALSE,
           maxSeen |-> 0, next |-> 0, rejected |-> {}, reportedFree |-> 0,
           outcome |-> "none", buildIds |-> {}]

NoCall == [kind |-> "none", pc |-> "idle", project |-> "none", build |-> 0,
           dep |-> 0, tmp |-> 0, cur |-> 0, locks |-> {}, healthPassed |-> FALSE,
           prev |-> 0]

\* pcs at which the request is being handled inside the Deploy Engine
EnginePcs == {"extract", "sl_write", "sl_rm", "sl_ln", "sl_mv", "resolve",
              "kill", "portfree", "spawn", "health", "stop_kill", "stop_portfree"}

InEngine(c) == calls[c].pc \in EnginePcs

Finished(c) == calls[c].pc \in {"done", "failed"}

\* rows of table deployments that are active for project p
ActiveDeployments(p) ==
  {d \in DOMAIN deployments :
     deployments[d].project_id = p /\ deployments[d].status = "active"}

\* rows locked by an open transaction of another request
LockedByOther(c) == UNION {calls[o].locks : o \in CallIds \ {c}}

\* build served by the process listening on the port of p, 0 = nothing is served
Serving(p) == IF listener[p] = 0 THEN 0 ELSE calls[listener[p]].cur

\* the version the engine runs for p: `current` points to it and it serves the port
RunningVersion(p) == IF current[p] # 0 /\ Serving(p) = current[p] THEN current[p] ELSE 0

SetPc(c, pc) == calls' = [calls EXCEPT ![c].pc = pc]

\* request slots are taken in order
Fresh(c) ==
  /\ calls[c].kind = "none"
  /\ IF c = 1 THEN TRUE ELSE calls[c - 1].kind # "none"

\* an activateBuild that marks the active rows inactive before it calls the
\* Deploy Engine
activateBuild_updateFirst(c, b) ==
  /\ Fresh(c)
  /\ b \in DOMAIN builds
  /\ calls' = [calls EXCEPT ![c] = [NoCall EXCEPT !.kind = "activate",
                 !.pc = "extract", !.project = builds[b].project_id, !.build = b,
                 !.prev = RunningVersion(builds[b].project_id)]]
  /\ deployments' = [d \in DOMAIN deployments |->
                       IF d \in ActiveDeployments(builds[b].project_id)
                         THEN [deployments[d] EXCEPT !.status = "inactive"]
                         ELSE deployments[d]]
  /\ UNCHANGED <<mode, builds, artifacts, extracted, current,
                 currentBuildId, tmpLink, pidFile, listener>>
  /\ UNCHANGED notDeployVars

\* DeploymentService.activateBuild up to the fetch of POST /activate
\* (reached from POST /deploy/build/:id/activate and from updateStatus)
activateBuild(c, b) ==
  /\ Fresh(c)
  /\ b \in DOMAIN builds
  /\ calls' = [calls EXCEPT ![c] = [NoCall EXCEPT !.kind = "activate",
                 !.pc = "extract", !.project = builds[b].project_id, !.build = b,
                 !.prev = RunningVersion(builds[b].project_id)]]
  /\ UNCHANGED <<mode, builds, deployments, artifacts, extracted, current,
                 currentBuildId, tmpLink, pidFile, listener>>
  /\ UNCHANGED notDeployVars

\* an extraction that does not look whether the artifact exists
extractArtifact_noCheck(c) ==
  LET b == calls[c].build IN
  /\ calls[c].pc = "extract"
  /\ extracted' = extracted \cup {b}
  /\ SetPc(c, IF mode = "ts" THEN "sl_write" ELSE "sl_rm")
  /\ UNCHANGED <<mode, builds, deployments, artifacts, current,
                 currentBuildId, tmpLink, pidFile, listener>>
  /\ UNCHANGED notDeployVars

\* activateDeployment steps 1-2: artifact check and extraction
\* (the Go engine creates the target directory before tar runs)
extractArtifact(c) ==
  LET b == calls[c].build IN
  /\ calls[c].pc = "extract"
  /\ IF mode = "ts"
       THEN IF b \in artifacts
              THEN extracted' = extracted \cup {b} /\ SetPc(c, "sl_write")
              ELSE extracted' = extracted /\ SetPc(c, "failed")
       ELSE /\ extracted' = extracted \cup {b}
            /\ SetPc(c, IF b \in artifacts THEN "sl_rm" ELSE "failed")
  /\ UNCHANGED <<mode, builds, deployments, artifacts, current,
                 currentBuildId, tmpLink, pidFile, listener>>
  /\ UNCHANGED notDeployVars

\* updateSymlink (ts): Bun.write(idFile, buildId)
updateSymlinkWriteId(c) ==
  /\ calls[c].pc = "sl_write"
  /\ currentBuildId' = [currentBuildId EXCEPT ![calls[c].project] = calls[c].build]
  /\ SetPc(c, "sl_ln")
  /\ UNCHANGED <<mode, builds, deployments, artifacts, extracted, current,
                 tmpLink, pidFile, listener>>
  /\ UNCHANGED notDeployVars

\* updateSymlink (go): os.Remove(tempLink)
updateSymlinkRemoveTemp(c) ==
  /\ calls[c].pc = "sl_rm"
  /\ tmpLink' = [tmpLink EXCEPT ![calls[c].project][1] = 0]
  /\ calls' = [calls EXCEPT ![c].pc = "sl_ln", ![c].tmp = 1]
  /\ UNCHANGED <<mode, builds, deployments, artifacts, extracted, current,
                 currentBuildId, pidFile, listener>>
  /\ UNCHANGED notDeployVars

\* updateSymlink: creation of the temp symlink.
\* ts: ln -sf target .current_tmp_<Date.now()>; when the temp name already
\*     exists it is a link to a directory and ln puts the new link inside it.
\* go: os.Symlink(target, current.tmp) fails when the name exists.
updateSymlinkLn(c) ==
  LET p == calls[c].project IN
  /\ calls[c].pc = "sl_ln"
  /\ IF mode = "ts"
       THEN \E n \in TmpNames :
              /\ tmpLink' = [tmpLink EXCEPT ![p][n] =
                               IF @ = 0 THEN calls[c].build ELSE @]
              /\ calls' = [calls EXCEPT ![c].pc = "sl_mv", ![c].tmp = n]
       ELSE IF tmpLink[p][1] = 0
              THEN /\ tmpLink' = [tmpLink EXCEPT ![p][1] = calls[c].build]
                   /\ SetPc(c, "sl_mv")
              ELSE /\ tmpLink' = tmpLink
                   /\ SetPc(c, "failed")
  /\ UNCHANGED <<mode, builds, deployments, artifacts, extracted, current,
                 currentBuildId, pidFile, listener>>
  /\ UNCHANGED notDeployVars

\* a rotation that unlinks `current` before it links the new target
updateSymlinkMv_unlinkFirst(c) ==
  LET p == calls[c].project
      n == calls[c].tmp IN
  /\ calls[c].pc = "sl_mv"
  /\ IF current[p] # 0
       THEN /\ current' = [current EXCEPT ![p] = 0]
            /\ UNCHANGED <<tmpLink, calls>>
       ELSE IF tmpLink[p][n] # 0
         THEN /\ current' = [current EXCEPT ![p] = tmpLink[p][n]]
              /\ tmpLink' = [tmpLink EXCEPT ![p][n] = 0]
              /\ SetPc(c, IF mode = "ts" THEN "kill" ELSE "resolve")
         ELSE /\ UNCHANGED <<current, tmpLink>>
              /\ SetPc(c, IF mode = "ts" THEN "kill" ELSE "failed")
  /\ UNCHANGED <<mode, builds, deployments, artifacts, extracted,
                 currentBuildId, pidFile, listener>>
  /\ UNCHANGED notDeployVars

\* updateSymlink: rename of the temp symlink over `current`.
\* ts: mv -Tf temp current, exit status ignored.
\* go: os.Rename(tempLink, currentLink), an error fails the activation.
updateSymlinkMv(c) ==
  LET p == calls[c].project
      n == calls[c].tmp IN
  /\ calls[c].pc = "sl_mv"
  /\ IF tmpLink[p][n] # 0
       THEN /\ current' = [current EXCEPT ![p] = tmpLink[p][n]]
            /\ tmpLink' = [tmpLink EXCEPT ![p][n] = 0]
            /\ SetPc(c, IF mode = "ts" THEN "kill" ELSE "resolve")
       ELSE /\ UNCHANGED <<current, tmpLink>>
            /\ SetPc(c, IF mode = "ts" THEN "kill" ELSE "failed")
  /\ UNCHANGED <<mode, builds, deployments, artifacts, extracted,
                 currentBuildId, pidFile, listener>>
  /\ UNCHANGED notDeployVars

\* ActivateDeployment (go): filepath.EvalSymlinks(currentLink), then
\* activateWithProcess: a static build is neither started nor health-checked
resolveCurrent(c) ==
  LET p == calls[c].project IN
  /\ calls[c].pc = "resolve"
  /\ calls' = [calls EXCEPT
       ![c].cur = current[p],
       ![c].pc = IF current[p] = 0 THEN "failed"
                 ELSE IF shouldUseStaticServer(AppTypeOf(p)) THEN "tx_update"
                 ELSE "kill"]
  /\ UNCHANGED <<mode, builds, deployments, artifacts, extracted, current,
                 currentBuildId, tmpLink, pidFile, listener>>
  /\ UNCHANGED notDeployVars

\* the signalling part of killProjectProcess.
\* ts: the pid of server.pid is signalled and the file unlinked.
\* go: every pid that lsof reports on the port is signalled.
KillEffect(p) ==
  IF mode = "ts"
    THEN /\ listener' = [listener EXCEPT ![p] = IF @ = pidFile[p] THEN 0 ELSE @]
         /\ pidFile' = [pidFile EXCEPT ![p] = 0]
    ELSE /\ listener' = [listener EXCEPT ![p] = 0]
         /\ pidFile' = pidFile

killProjectProcess(c) ==
  /\ calls[c].pc = "kill"
  /\ KillEffect(calls[c].project)
  /\ SetPc(c, "portfree")
  /\ UNCHANGED <<mode, builds, deployments, artifacts, extracted, current,
                 currentBuildId, tmpLink>>
  /\ UNCHANGED notDeployVars

\* ensurePortFree: returns once nothing accepts connections on the port,
\* throws when the port is still taken at the deadline
ensurePortFree(c) ==
  /\ calls[c].pc = "portfree"
  /\ SetPc(c, IF listener[calls[c].project] = 0 THEN "spawn" ELSE "failed")
  /\ UNCHANGED <<mode, builds, deployments, artifacts, extracted, current,
                 currentBuildId, tmpLink, pidFile, listener>>
  /\ UNCHANGED notDeployVars

\* startApplication up to the health check: dependency install (may fail),
\* spawn, pid file. The process serves the port when the application comes
\* up and the port is not taken. ts runs the extract directory of the
\* request, go runs the directory `current` resolved to.
startApplication(c) ==
  LET p == calls[c].project IN
  /\ calls[c].pc = "spawn"
  /\ \/ /\ requiresInstall(AppTypeOf(p))
        /\ ~ (mode = "ts" /\ shouldUseStaticServer(AppTypeOf(p)))
        /\ SetPc(c, "failed")
        /\ UNCHANGED <<pidFile, listener>>
     \/ \E up \in BOOLEAN :
        /\ calls' = [calls EXCEPT ![c].pc = "health",
                       ![c].cur = IF mode = "ts" THEN calls[c].build ELSE @]
        /\ pidFile' = [pidFile EXCEPT ![p] = c]
        /\ listener' = [listener EXCEPT ![p] = IF @ = 0 /\ up THEN c ELSE @]
  /\ UNCHANGED <<mode, builds, deployments, artifacts, extracted, current,
                 currentBuildId, tmpLink>>
  /\ UNCHANGED notDeployVars

\* performHealthCheck: passes on a response below 500 from the port,
\* throws at the deadline; a pass lets the engine answer 200
performHealthCheck(c) ==
  /\ calls[c].pc = "health"
  /\ IF listener[calls[c].project] # 0
       THEN calls' = [calls EXCEPT ![c].pc = "tx_update", ![c].healthPassed = TRUE]
       ELSE SetPc(c, "failed")
  /\ UNCHANGED <<mode, builds, deployments, artifacts, extracted, current,
                 currentBuildId, tmpLink, pidFile, listener>>
  /\ UNCHANGED notDeployVars

\* activateBuild, first statement of the transaction:
\* UPDATE deployments SET status = inactive WHERE project_id = p AND status = active.
\* The statement sees the committed rows, waits for rows another open
\* transaction has updated, and keeps its rows locked until commit.
txDeactivate(c) ==
  /\ calls[c].pc = "tx_update"
  /\ ActiveDeployments(calls[c].project) \cap LockedByOther(c) = {}
  /\ calls' = [calls EXCEPT ![c].pc = "tx_insert",
                 ![c].locks = ActiveDeployments(calls[c].project)]
  /\ UNCHANGED <<mode, builds, deployments, artifacts, extracted, current,
                 currentBuildId, tmpLink, pidFile, listener>>
  /\ UNCHANGED notDeployVars

\* activateBuild, second statement and commit: INSERT the active row
txInsertCommit(c) ==
  /\ calls[c].pc = "tx_insert"
  /\ deployments' =
       Append([d \in DOMAIN deployments |->
                 IF d \in calls[c].locks
                   THEN [deployments[d] EXCEPT !.status = "inactive"]
                   ELSE deployments[d]],
              [project_id |-> calls[c].project, build_id |-> calls[c].build,
               status |-> "active"])
  /\ calls' = [calls EXCEPT ![c].pc = "done", ![c].locks = {}]
  /\ UNCHANGED <<mode, builds, artifacts, extracted, current,
                 currentBuildId, tmpLink, pidFile, listener>>
  /\ UNCHANGED notDeployVars

\* DeploymentService.stop up to the fetch of POST /stop: findFirst of an
\* active deployment of the project, throws when there is none
stop(c, p) ==
  /\ Fresh(c)
  /\ IF ActiveDeployments(p) = {}
       THEN calls' = [calls EXCEPT ![c] = [NoCall EXCEPT !.kind = "stop",
                        !.pc = "failed", !.project = p]]
       ELSE \E d \in ActiveDeployments(p) :
              calls' = [calls EXCEPT ![c] = [NoCall EXCEPT !.kind = "stop",
                          !.pc = "stop_kill", !.project = p, !.dep = d,
                          !.build = deployments[d].build_id]]
  /\ UNCHANGED <<mode, builds, deployments, artifacts, extracted, current,
                 currentBuildId, tmpLink, pidFile, listener>>
  /\ UNCHANGED notDeployVars

\* stopDeployment: killProjectProcess; the Go engine answers 200 right away
stopDeployment(c) ==
  /\ calls[c].pc = "stop_kill"
  /\ KillEffect(calls[c].project)
  /\ SetPc(c, IF mode = "ts" THEN "stop_portfree" ELSE "stop_db")
  /\ UNCHANGED <<mode, builds, deployments, artifacts, extracted, current,
                 currentBuildId, tmpLink>>
  /\ UNCHANGED notDeployVars

\* stopDeployment (ts): ensurePortFree at the end of killProjectProcess
stopEnsurePortFree(c) ==
  /\ calls[c].pc = "stop_portfree"
  /\ SetPc(c, IF listener[calls[c].project] = 0 THEN "stop_db" ELSE "failed")
  /\ UNCHANGED <<mode, builds, deployments, artifacts, extracted, current,
                 currentBuildId, tmpLink, pidFile, listener>>
  /\ UNCHANGED notDeployVars

\* DeploymentService.stop: UPDATE deployments SET status = inactive WHERE id = dep
stopMarkInactive(c) ==
  /\ calls[c].pc = "stop_db"
  /\ calls[c].dep \notin LockedByOther(c)
  /\ deployments' = [deployments EXCEPT ![calls[c].dep].status = "inactive"]
  /\ SetPc(c, "done")
  /\ UNCHANGED <<mode, builds, artifacts, extracted, current,
                 currentBuildId, tmpLink, pidFile, listener>>
  /\ UNCHANGED notDeployVars

DeployBuilds ==
  << [project_id |-> "p1", status |-> "success", commit_sha |-> 0, completed |-> TRUE],
     [project_id |-> "p1", status |-> "success", commit_sha |-> 0, completed |-> TRUE],
     [project_id |-> "p2", status |-> "success", commit_sha |-> 0, completed |-> TRUE],
     [project_id |-> "p1", status |-> "failed", commit_sha |-> 0, completed |-> TRUE] >>

InitDeploy ==
  /\ PeripheryIdle
  /\ mode \in {"ts", "go"}
  /\ builds = DeployBuilds
  /\ deployments = << >>
  /\ calls = [c \in CallIds |-> NoCall]
  \* the artifact of build 4 exists when an execution uploaded it before a
  \* later execution of the same build failed
  /\ artifacts \in {{1, 2, 3}, {1, 2, 3, 4}}
  /\ extracted = {}
  /\ current = [p \in Projects |-> 0]
  /\ currentBuildId = [p \in Projects |-> 0]
  /\ tmpLink = [p \in Projects |-> [n \in TmpNames |-> 0]]
  /\ pidFile = [p \in Projects |-> 0]
  /\ listener = [p \in Projects |-> 0]
  /\ buildLogs = {}
  /\ jobs = << >>
  /\ execs = [e \in ExecIds |-> NoExec]
  /\ creates = << >>
  /\ deliveries = [d \in DeliveryIds |-> NoDelivery]
  /\ projects = SeededProjects
  /\ envVars = {}
  /\ preqs = [r \in PReqIds |-> NoPReq]
  /\ streamer = NoBuffer
  /\ flushes = [f \in FlushIds |-> NoFlush]
  /\ posts = << >>

NextDeploy ==
  \/ \E c \in CallIds, b \in DOMAIN builds : activateBuild(c, b)
  \/ \E c \in CallIds : extractArtifact(c)
  \/ \E c \in CallIds : updateSymlinkWriteId(c)
  \/ \E c \in CallIds : updateSymlinkRemoveTemp(c)
  \/ \E c \in CallIds : updateSymlinkLn(c)
  \/ \E c \in CallIds : updateSymlinkMv(c)
  \/ \E c \in CallIds : resolveCurrent(c)
  \/ \E c \in CallIds : killProjectProcess(c)
  \/ \E c \in CallIds : ensurePortFree(c)
  \/ \E c \in CallIds : startApplication(c)
  \/ \E c \in CallIds : performHealthCheck(c)
  \/ \E c \in CallIds : txDeactivate(c)
  \/ \E c \in CallIds : txInsertCommit(c)
  \/ \E c \in CallIds, p \in Projects : stop(c, p)
  \/ \E c \in CallIds : stopDeployment(c)
  \/ \E c \in CallIds : stopEnsurePortFree(c)
  \/ \E c \in CallIds : stopMarkInactive(c)

SpecDeploy == InitDeploy /\ [][NextDeploy]_vars

(***************************************************************************)
(* Build records, queue and Build Worker                                   *)
(*                                                                         *)
(* The worker's log streaming is left out of these steps, and the Deploy   *)
(* Engine's part of an auto-activation is one step with either outcome;    *)
(* its inner steps are the ones of SpecDeploy.                             *)
(***************************************************************************)
\* QUEUE_CONFIG.defaultJobOptions.attempts
Attempts == 3
\* RETRY_CONFIG.maxRetries
MaxRetries == 3

NoJob == [state |-> "none", attemptsMade |-> 0]

Running(e) == execs[e].pc \notin {"idle", "done"}

\* execution slots are taken in order
FreshExec(e) ==
  /\ execs[e].pc = "idle"
  /\ IF e = 1 THEN TRUE ELSE execs[e - 1].pc # "idle"

NewBuild(p, sha) ==
  [project_id |-> p, status |-> "pending", commit_sha |-> sha, completed |-> FALSE]

\* a row whose completed_at is set for a terminal status and otherwise kept
StatusRow_keepCompleted(row, status) ==
  [row EXCEPT !.status = status, !.completed = @ \/ (status \in Terminal)]

\* the row written by updateStatus: completed_at is set exactly for a terminal status
StatusRow(row, status) ==
  [row EXCEPT !.status = status, !.completed = (status \in Terminal)]

\* BuildService.updateStatus, the UPDATE of the builds row
updateStatus(b, status) ==
  builds' = [builds EXCEPT ![b] = StatusRow(@, status)]

Log(b, level, msg) == [build_id |-> b, level |-> level, message |-> msg]

\* the build was created by the queue variant of BuildService, whose
\* updateStatus writes the activation log entries; the HTTP variant writes none
QueueVariant(b) == creates[b].attempt = 0

PersistIf(cond, entry) == IF cond THEN buildLogs \cup {entry} ELSE buildLogs

\* BuildService.create (queue variant): INSERT of the pending row and
\* BuildQueue.addJob -> buildQueue.add, which either adds the job or throws
insertAndEnqueue(p, sha) ==
  /\ Len(builds) < MaxBuilds
  /\ builds' = Append(builds, NewBuild(p, sha))
  /\ \E added \in BOOLEAN :
       /\ jobs' = Append(jobs, IF added THEN [NoJob EXCEPT !.state = "waiting"] ELSE NoJob)
       /\ creates' = Append(creates, [pc |-> IF added THEN "added" ELSE "add_failed",
                                      attempt |-> 0, response |-> "none"])
  /\ UNCHANGED <<deployments, artifacts, buildLogs, execs>>

\* POST /projects/:id/builds: BuildService.create without a commit SHA
createQueued(p, sha) ==
  /\ insertAndEnqueue(p, sha)
  /\ UNCHANGED notBuildVars

\* BuildService.create (queue variant) after buildQueue.add: position, stats
\* and the queue log entries; the catch block marks the build failed when
\* buildQueue.add threw, and also when getJobPosition, getStats or
\* LogService.persist throws after the job was added
logQueuedOrFail(b) ==
  /\ b \in DOMAIN creates
  /\ creates[b].pc \in {"added", "add_failed"}
  /\ \/ /\ creates[b].pc = "added"
        /\ buildLogs' = buildLogs \cup {Log(b, "info", "queued")}
        /\ creates' = [creates EXCEPT ![b].pc = "done"]
        /\ UNCHANGED builds
     \/ /\ builds' = [builds EXCEPT ![b].status = "failed", ![b].completed = TRUE]
        /\ creates' = [creates EXCEPT ![b].pc = "submit_failed"]
        /\ UNCHANGED buildLogs
  /\ UNCHANGED <<deployments, artifacts, jobs, execs>>

\* return of BuildService.create to POST /projects/:id/builds
createQueuedFinish(b) ==
  /\ logQueuedOrFail(b)
  /\ \A d \in DeliveryIds : deliveries[d].build # b
  /\ UNCHANGED notBuildVars

\* BuildService.create (HTTP variant): INSERT of the pending row
createHttp(p, sha) ==
  /\ Len(builds) < MaxBuilds
  /\ builds' = Append(builds, NewBuild(p, sha))
  /\ jobs' = Append(jobs, NoJob)
  /\ creates' = Append(creates, [pc |-> "trigger", attempt |-> 1, response |-> "none"])
  /\ UNCHANGED <<deployments, artifacts, buildLogs, execs>>
  /\ UNCHANGED notBuildVars

\* POST /build of the worker: Builder.execute is started and not awaited
postBuild(e, b) ==
  /\ FreshExec(e)
  /\ execs' = [execs EXCEPT ![e] = [NoExec EXCEPT !.build = b, !.origin = "http",
                                                  !.pc = "put_building"]]

\* how a POST /build attempt can end: an answer of the worker or of whatever
\* stands before it, the abort after timeoutMs, or a failed connection
Responses == {"2xx", "4xx", "5xx", "timeout", "network"}

\* a trigger that gives up at the first attempt that fails
triggerBuildWithRetry_once(b) ==
  /\ b \in DOMAIN creates
  /\ creates[b].pc = "trigger"
  /\ \E r \in Responses :
       /\ IF r = "2xx" THEN \E e \in ExecIds : postBuild(e, b)
          ELSE IF r = "timeout" THEN \/ \E e \in ExecIds : postBuild(e, b)
                                     \/ UNCHANGED execs
          ELSE UNCHANGED execs
       /\ IF r = "2xx"
            THEN /\ creates' = [creates EXCEPT ![b].pc = "done", ![b].response = r]
                 /\ UNCHANGED builds
            ELSE /\ creates' = [creates EXCEPT ![b].pc = "done", ![b].response = r]
                 /\ builds' = [builds EXCEPT ![b].status = "failed",
                                             ![b].completed = TRUE]
  /\ UNCHANGED <<deployments, artifacts, buildLogs, jobs>>
  /\ UNCHANGED notBuildVars

\* triggerBuildWithRetry, one attempt, and what create does with the result.
\* 2xx: the worker started Builder.execute, the trigger returns success.
\* 4xx: the trigger returns failure at once.  5xx, timeout (the worker may
\* or may not have taken the request) and network error: the next attempt
\* follows, and after attempt maxRetries the trigger returns failure.
\* On failure create marks the build failed.
triggerBuildWithRetry(b) ==
  /\ b \in DOMAIN creates
  /\ creates[b].pc = "trigger"
  /\ \E r \in Responses :
       /\ IF r = "2xx" THEN \E e \in ExecIds : postBuild(e, b)
          ELSE IF r = "timeout" THEN \/ \E e \in ExecIds : postBuild(e, b)
                                     \/ UNCHANGED execs
          ELSE UNCHANGED execs
       /\ IF r = "2xx"
            THEN /\ creates' = [creates EXCEPT ![b].pc = "done", ![b].response = r]
                 /\ UNCHANGED builds
            ELSE IF r # "4xx" /\ creates[b].attempt < MaxRetries
            THEN /\ creates' = [creates EXCEPT ![b].attempt = @ + 1, ![b].response = r]
                 /\ UNCHANGED builds
            ELSE /\ creates' = [creates EXCEPT ![b].pc = "done", ![b].response = r]
                 /\ builds' = [builds EXCEPT ![b].status = "failed",
                                             ![b].completed = TRUE]
  /\ UNCHANGED <<deployments, artifacts, buildLogs, jobs>>
  /\ UNCHANGED notBuildVars

\* the Worker of BuildWorker.initialize takes a waiting job; with
\* concurrency 1 it has no other job active
processJob(e, b) ==
  /\ FreshExec(e)
  /\ b \in DOMAIN jobs
  /\ jobs[b].state = "waiting"
  /\ \A o \in ExecIds : ~ (Running(o) /\ execs[o].origin = "queue")
  /\ jobs' = [jobs EXCEPT ![b].state = "active"]
  /\ execs' = [execs EXCEPT ![e] = [NoExec EXCEPT !.build = b, !.origin = "queue",
                                                  !.pc = "put_building"]]
  /\ UNCHANGED <<builds, deployments, artifacts, buildLogs, creates>>
  /\ UNCHANGED notBuildVars

\* Builder.execute: updateStatus('building'); a failed fetch is swallowed
executePutBuilding(e) ==
  /\ execs[e].pc = "put_building"
  /\ \/ updateStatus(execs[e].build, "building")
     \/ UNCHANGED builds
  /\ execs' = [execs EXCEPT ![e].pc = "work"]
  /\ UNCHANGED <<deployments, artifacts, buildLogs, jobs, creates>>
  /\ UNCHANGED notBuildVars

\* an execution that goes on to report success when its work has thrown
executeWork_successAnyway(e) ==
  /\ execs[e].pc = "work"
  /\ \/ /\ artifacts' = artifacts \cup {execs[e].build}
        /\ execs' = [execs EXCEPT ![e].pc = "put_success"]
     \/ /\ UNCHANGED artifacts
        /\ execs' = [execs EXCEPT ![e].pc = "put_success", ![e].threw = TRUE]
  /\ UNCHANGED <<builds, deployments, buildLogs, jobs, creates>>
  /\ UNCHANGED notBuildVars

\* Builder.execute: token, clone, install, build and artifact upload; the
\* artifact exists in the Deploy Engine once the upload returned OK
executeWork(e) ==
  /\ execs[e].pc = "work"
  /\ \/ /\ artifacts' = artifacts \cup {execs[e].build}
        /\ execs' = [execs EXCEPT ![e].pc = "put_success"]
     \/ /\ UNCHANGED artifacts
        /\ execs' = [execs EXCEPT ![e].pc = "put_failed", ![e].threw = TRUE]
  /\ UNCHANGED <<builds, deployments, buildLogs, jobs, creates>>
  /\ UNCHANGED notBuildVars

\* Builder.execute: updateStatus('success'); PUT /builds/:id runs
\* BuildService.updateStatus, which starts the auto-activation
executePutSuccess(e) ==
  LET b == execs[e].build IN
  /\ execs[e].pc = "put_success"
  /\ \/ /\ updateStatus(b, "success")
        /\ buildLogs' = PersistIf(QueueVariant(b), Log(b, "deploy", "starting"))
        /\ execs' = [execs EXCEPT ![e].pc = "activating"]
     \/ /\ UNCHANGED <<builds, buildLogs>>
        /\ execs' = [execs EXCEPT ![e].pc = "finally"]
  /\ UNCHANGED <<deployments, artifacts, jobs, creates>>
  /\ UNCHANGED notBuildVars

\* BuildService.updateStatus: DeploymentService.activateBuild and the log
\* entry for its outcome; the error is not rethrown
autoActivate(e) ==
  LET b == execs[e].build
      p == builds[b].project_id IN
  /\ execs[e].pc = "activating"
  /\ \/ /\ deployments' =
             Append([d \in DOMAIN deployments |->
                       IF deployments[d].project_id = p
                         THEN [deployments[d] EXCEPT !.status = "inactive"]
                         ELSE deployments[d]],
                    [project_id |-> p, build_id |-> b, status |-> "active"])
        /\ buildLogs' = PersistIf(QueueVariant(b), Log(b, "deploy", "activated"))
        /\ execs' = [execs EXCEPT ![e].pc = "finally", ![e].activation = "ok"]
     \/ /\ UNCHANGED deployments
        /\ buildLogs' = PersistIf(QueueVariant(b), Log(b, "error", "activation failed"))
        /\ execs' = [execs EXCEPT ![e].pc = "finally", ![e].activation = "failed"]
  /\ UNCHANGED <<builds, artifacts, jobs, creates>>
  /\ UNCHANGED notBuildVars

\* Builder.execute catch block: updateStatus('failed'), then rethrow
executePutFailed(e) ==
  /\ execs[e].pc = "put_failed"
  /\ \/ updateStatus(execs[e].build, "failed")
     \/ UNCHANGED builds
  /\ execs' = [execs EXCEPT ![e].pc = "finally"]
  /\ UNCHANGED <<deployments, artifacts, buildLogs, jobs, creates>>
  /\ UNCHANGED notBuildVars

\* Builder.execute finally block, and for a queue job the outcome the queue
\* records: completed, or failed and retried while attempts remain
executeFinally(e) ==
  LET b == execs[e].build IN
  /\ execs[e].pc = "finally"
  /\ execs' = [execs EXCEPT ![e].pc = "done"]
  /\ IF execs[e].origin = "queue"
       THEN jobs' = [jobs EXCEPT ![b] =
                       IF ~ execs[e].threw
                         THEN [@ EXCEPT !.state = "completed"]
                         ELSE [state |-> IF @.attemptsMade + 1 < Attempts
                                           THEN "waiting" ELSE "failed",
                               attemptsMade |-> @.attemptsMade + 1]]
       ELSE UNCHANGED jobs
  /\ UNCHANGED <<builds, deployments, artifacts, buildLogs, creates>>
  /\ UNCHANGED notBuildVars

InitBuild ==
  /\ PeripheryIdle
  /\ mode = "ts"
  /\ builds = << >>
  /\ deployments = << >>
  /\ calls = [c \in CallIds |-> NoCall]
  /\ artifacts = {}
  /\ extracted = {}
  /\ current = [p \in Projects |-> 0]
  /\ currentBuildId = [p \in Projects |-> 0]
  /\ tmpLink = [p \in Projects |-> [n \in TmpNames |-> 0]]
  /\ pidFile = [p \in Projects |-> 0]
  /\ listener = [p \in Projects |-> 0]
  /\ buildLogs = {}
  /\ jobs = << >>
  /\ execs = [e \in ExecIds |-> NoExec]
  /\ creates = << >>
  /\ deliveries = [d \in DeliveryIds |-> NoDelivery]
  /\ projects = SeededProjects
  /\ envVars = {}
  /\ preqs = [r \in PReqIds |-> NoPReq]
  /\ streamer = NoBuffer
  /\ flushes = [f \in FlushIds |-> NoFlush]
  /\ posts = << >>

NextBuild ==
  \/ \E p \in Projects : createQueued(p, 0)
  \/ \E b \in 1..MaxBuilds : createQueuedFinish(b)
  \/ \E p \in Projects : createHttp(p, 0)
  \/ \E b \in 1..MaxBuilds : triggerBuildWithRetry(b)
  \/ \E e \in ExecIds, b \in 1..MaxBuilds : processJob(e, b)
  \/ \E e \in ExecIds : executePutBuilding(e)
  \/ \E e \in ExecIds : executeWork(e)
  \/ \E e \in ExecIds : executePutSuccess(e)
  \/ \E e \in ExecIds : autoActivate(e)
  \/ \E e \in ExecIds : executePutFailed(e)
  \/ \E e \in ExecIds : executeFinally(e)

SpecBuild == InitBuild /\ [][NextBuild]_vars

\* The queue delivers the jobs it holds and the worker and the Control Plane
\* keep running: a step of the trigger, of the queue worker or of
\* Builder.execute that stays possible is taken.  Nothing is assumed about the
\* outcome of a request.
BuildFairness ==
  /\ WF_vars(\E b \in 1..MaxBuilds : createQueuedFinish(b))
  /\ WF_vars(\E b \in 1..MaxBuilds : triggerBuildWithRetry(b))
  /\ WF_vars(\E e \in ExecIds, b \in 1..MaxBuilds : processJob(e, b))
  /\ WF_vars(\E e \in ExecIds : executePutBuilding(e))
  /\ WF_vars(\E e \in ExecIds : executeWork(e))
  /\ WF_vars(\E e \in ExecIds : executePutSuccess(e))
  /\ WF_vars(\E e \in ExecIds : autoActivate(e))
  /\ WF_vars(\E e \in ExecIds : executePutFailed(e))
  /\ WF_vars(\E e \in ExecIds : executeFinally(e))

SpecBuildFair == InitBuild /\ [][NextBuild]_vars /\ BuildFairness

(***************************************************************************)
(* Webhook Ingress: push events                                            *)
(***************************************************************************)
\* SELECT ... FROM builds WHERE project_id = p AND commit_sha = sha LIMIT 1
existingBuild(p, sha) ==
  {b \in DOMAIN builds : builds[b].project_id = p /\ builds[b].commit_sha = sha}

\* deliveries are numbered in order of arrival
FreshDelivery(d) ==
  /\ deliveries[d].pc = "idle"
  /\ IF d = 1 THEN TRUE ELSE deliveries[d - 1].pc # "idle"

\* deliveries with the same payload whose handling has already returned
Completed(branch, sha) ==
  {o \in DeliveryIds : /\ deliveries[o].pc = "done"
                       /\ deliveries[o].branch = branch
                       /\ deliveries[o].sha = sha}

\* the loop moves to the next connected project, or the handler returns
Advance(r) ==
  IF r.idx < Len(r.connected)
    THEN [r EXCEPT !.idx = @ + 1, !.pc = "check", !.build = 0]
    ELSE [r EXCEPT !.pc = "done", !.build = 0]

\* push handler up to the loop: signature verified, payload parsed,
\* SELECT of the projects connected to the repository and branch
pushReceived(d, branch, sha) ==
  LET connected == SelectSeq(ProjectRows, LAMBDA p : BranchOf(p) = branch) IN
  /\ FreshDelivery(d)
  /\ deliveries' = [deliveries EXCEPT ![d] =
       [NoDelivery EXCEPT !.branch = branch, !.sha = sha,
          !.connected = connected,
          !.idx = IF connected = << >> THEN 0 ELSE 1,
          !.pc = IF connected = << >> THEN "done" ELSE "check",
          !.replays = Completed(branch, sha)]]
  /\ UNCHANGED <<builds, deployments, artifacts, buildLogs, jobs, execs, creates>>
  /\ UNCHANGED engineVars
  /\ UNCHANGED peripheryVars
  /\ UNCHANGED projectVars
  /\ UNCHANGED workerLogVars

\* a loop body without the idempotency check
checkProject_noIdempotency(d) ==
  LET r == deliveries[d]
      p == r.connected[r.idx] IN
  /\ r.pc = "check"
  /\ deliveries' = [deliveries EXCEPT ![d] =
       IF ~ AutoDeploy(p)
         THEN Advance([r EXCEPT !.skipped = @ + 1])
         ELSE [r EXCEPT !.pc = "create"]]
  /\ UNCHANGED <<builds, deployments, artifacts, buildLogs, jobs, execs, creates>>
  /\ UNCHANGED engineVars
  /\ UNCHANGED peripheryVars
  /\ UNCHANGED projectVars
  /\ UNCHANGED workerLogVars

\* loop body up to BuildService.create: auto_deploy test and idempotency check
checkProject(d) ==
  LET r == deliveries[d]
      p == r.connected[r.idx] IN
  /\ r.pc = "check"
  /\ deliveries' = [deliveries EXCEPT ![d] =
       IF ~ AutoDeploy(p)
         THEN Advance([r EXCEPT !.skipped = @ + 1])
       ELSE IF r.sha # 0 /\ existingBuild(p, r.sha) # {}
         THEN Advance([r EXCEPT !.skipped = @ + 1])
       ELSE [r EXCEPT !.pc = "create"]]
  /\ UNCHANGED <<builds, deployments, artifacts, buildLogs, jobs, execs, creates>>
  /\ UNCHANGED engineVars
  /\ UNCHANGED peripheryVars
  /\ UNCHANGED projectVars
  /\ UNCHANGED workerLogVars

\* BuildService.create called by the push handler: the INSERT and the
\* enqueue, or an exception that the handler logs
createBuild(d) ==
  LET r == deliveries[d]
      p == r.connected[r.idx] IN
  /\ r.pc = "create"
  /\ \/ /\ insertAndEnqueue(p, r.sha)
        /\ deliveries' = [deliveries EXCEPT ![d] =
             [r EXCEPT !.pc = "creating", !.build = Len(builds) + 1,
                       !.created = @ \cup {Len(builds) + 1}]]
     \/ /\ deliveries' = [deliveries EXCEPT ![d] = Advance([r EXCEPT !.errors = @ + 1])]
        /\ UNCHANGED <<builds, deployments, artifacts, buildLogs, jobs, execs, creates>>
  /\ UNCHANGED engineVars
  /\ UNCHANGED peripheryVars
  /\ UNCHANGED projectVars
  /\ UNCHANGED workerLogVars

\* return of BuildService.create to the push handler: buildsTriggered++
buildQueued(d) ==
  LET r == deliveries[d] IN
  /\ r.pc = "creating"
  /\ logQueuedOrFail(r.build)
  /\ deliveries' = [deliveries EXCEPT ![d] = Advance([r EXCEPT !.triggered = @ + 1])]
  /\ UNCHANGED engineVars
  /\ UNCHANGED peripheryVars
  /\ UNCHANGED projectVars
  /\ UNCHANGED workerLogVars

InitWebhook == InitBuild

NextWebhook ==
  \/ \E d \in DeliveryIds, branch \in Branches, sha \in Shas : pushReceived(d, branch, sha)
  \/ \E d \in DeliveryIds : checkProject(d)
  \/ \E d \in DeliveryIds : createBuild(d)
  \/ \E d \in DeliveryIds : buildQueued(d)

SpecWebhook == InitWebhook /\ [][NextWebhook]_vars

(***************************************************************************)
(* Control API: project creation and deletion                              *)
(***************************************************************************)
\* request slots are taken in order of arrival
FreshPReq(r) ==
  /\ preqs[r].pc = "idle"
  /\ IF r = 1 THEN TRUE ELSE preqs[r - 1].pc # "idle"

\* SELECT MAX(port) FROM projects; 0 stands for NULL, the empty table
MaxPort ==
  IF \A p \in Projects : ~ projects[p].exists
    THEN 0
    ELSE CHOOSE n \in {projects[p].port : p \in {q \in Projects : projects[q].exists}} :
           \A p \in Projects : projects[p].exists => projects[p].port <= n

\* rows of a project that are still in their tables
BuildsOf(p) ==
  {b \in DOMAIN builds : builds[b].project_id = p /\ builds[b].status # "deleted"}

DeploymentsOf(p) ==
  {d \in DOMAIN deployments :
     deployments[d].project_id = p /\ deployments[d].status # "deleted"}

EnvVarsOf(p) == {e \in envVars : e.project_id = p}

\* a creation that starts probing at the base port whatever MAX(port) is
createProject_fromBase(r, p, env) ==
  /\ FreshPReq(r)
  /\ ~ projects[p].exists
  /\ MaxPort < BasePort + MaxPortSpan
  /\ \A o \in PReqIds : ~ (preqs[o].kind = "create" /\ preqs[o].project = p
                            /\ preqs[o].pc \in {"port_check", "insert"})
  /\ preqs' = [preqs EXCEPT ![r] =
       [NoPReq EXCEPT !.kind = "create", !.pc = "port_check", !.project = p,
          !.env = env, !.maxSeen = MaxPort, !.next = BasePort]]
  /\ UNCHANGED <<projects, envVars>>
  /\ UNCHANGED <<builds, deployments, artifacts, buildLogs, jobs, execs, creates,
                 deliveries>>
  /\ UNCHANGED engineVars
  /\ UNCHANGED peripheryVars
  /\ UNCHANGED workerLogVars

\* ProjectService.create up to the availability loop: the id of the new row
\* is p, env tells whether env_vars were given; nextPort from MAX(port)
createProject(r, p, env) ==
  /\ FreshPReq(r)
  /\ ~ projects[p].exists
  /\ MaxPort < BasePort + MaxPortSpan
  /\ \A o \in PReqIds : ~ (preqs[o].kind = "create" /\ preqs[o].project = p
                            /\ preqs[o].pc \in {"port_check", "insert"})
  /\ preqs' = [preqs EXCEPT ![r] =
       [NoPReq EXCEPT !.kind = "create", !.pc = "port_check", !.project = p,
          !.env = env, !.maxSeen = MaxPort,
          !.next = (IF MaxPort = 0 THEN BasePort - 1 ELSE MaxPort) + 1]]
  /\ UNCHANGED <<projects, envVars>>
  /\ UNCHANGED <<builds, deployments, artifacts, buildLogs, jobs, execs, creates,
                 deliveries>>
  /\ UNCHANGED engineVars
  /\ UNCHANGED peripheryVars
  /\ UNCHANGED workerLogVars

\* a loop that takes the port when the Deploy Engine cannot be reached
checkPort_guess(r) ==
  LET q == preqs[r] IN
  /\ q.pc = "port_check"
  /\ \/ preqs' = [preqs EXCEPT ![r] = [q EXCEPT !.pc = "insert", !.reportedFree = q.next]]
     \/ /\ q.next < BasePort + MaxPortSpan
        /\ preqs' = [preqs EXCEPT ![r] =
             [q EXCEPT !.rejected = @ \cup {q.next}, !.next = @ + 1]]
     \/ preqs' = [preqs EXCEPT ![r] = [q EXCEPT !.pc = "insert", !.outcome = "unreachable"]]
  /\ UNCHANGED <<projects, envVars>>
  /\ UNCHANGED <<builds, deployments, artifacts, buildLogs, jobs, execs, creates,
                 deliveries>>
  /\ UNCHANGED engineVars
  /\ UNCHANGED peripheryVars
  /\ UNCHANGED workerLogVars

\* ProjectService.create, one round of the availability loop: the engine
\* reports the port available, or not available (or answers with an error
\* status), or the fetch throws
checkPort(r) ==
  LET q == preqs[r] IN
  /\ q.pc = "port_check"
  /\ \/ preqs' = [preqs EXCEPT ![r] = [q EXCEPT !.pc = "insert", !.reportedFree = q.next]]
     \/ /\ q.next < BasePort + MaxPortSpan
        /\ preqs' = [preqs EXCEPT ![r] =
             [q EXCEPT !.rejected = @ \cup {q.next}, !.next = @ + 1]]
     \/ preqs' = [preqs EXCEPT ![r] = [q EXCEPT !.pc = "failed", !.outcome = "unreachable"]]
  /\ UNCHANGED <<projects, envVars>>
  /\ UNCHANGED <<builds, deployments, artifacts, buildLogs, jobs, execs, creates,
                 deliveries>>
  /\ UNCHANGED engineVars
  /\ UNCHANGED peripheryVars
  /\ UNCHANGED workerLogVars

\* an insert into a table without the unique index on port
insertProject_noUnique(r) ==
  LET q == preqs[r] IN
  /\ q.pc = "insert"
  /\ \/ /\ projects' = [projects EXCEPT ![q.project] = [exists |-> TRUE, port |-> q.next]]
        /\ envVars' = IF q.env THEN envVars \cup {[project_id |-> q.project, key |-> "K"]}
                               ELSE envVars
        /\ preqs' = [preqs EXCEPT ![r] = [q EXCEPT !.pc = "done", !.outcome = "created"]]
     \/ /\ q.env
        /\ preqs' = [preqs EXCEPT ![r] = [q EXCEPT !.pc = "failed", !.outcome = "env_error"]]
        /\ UNCHANGED <<projects, envVars>>
  /\ UNCHANGED <<builds, deployments, artifacts, buildLogs, jobs, execs, creates,
                 deliveries>>
  /\ UNCHANGED engineVars
  /\ UNCHANGED peripheryVars
  /\ UNCHANGED workerLogVars

\* ProjectService.create, the transaction: INSERT of the project row, which
\* the unique index on port rejects for a port already in the table, and the
\* INSERTs of the environment variables; an exception rolls everything back
insertProject(r) ==
  LET q == preqs[r] IN
  /\ q.pc = "insert"
  /\ IF \E o \in Projects : projects[o].exists /\ projects[o].port = q.next
       THEN /\ preqs' = [preqs EXCEPT ![r] = [q EXCEPT !.pc = "failed", !.outcome = "conflict"]]
            /\ UNCHANGED <<projects, envVars>>
       ELSE \/ /\ projects' = [projects EXCEPT ![q.project] =
                                 [exists |-> TRUE, port |-> q.next]]
               /\ envVars' = IF q.env
                               THEN envVars \cup {[project_id |-> q.project, key |-> "K"]}
                               ELSE envVars
               /\ preqs' = [preqs EXCEPT ![r] = [q EXCEPT !.pc = "done", !.outcome = "created"]]
            \/ /\ q.env
               /\ preqs' = [preqs EXCEPT ![r] = [q EXCEPT !.pc = "failed", !.outcome = "env_error"]]
               /\ UNCHANGED <<projects, envVars>>
  /\ UNCHANGED <<builds, deployments, artifacts, buildLogs, jobs, execs, creates,
                 deliveries>>
  /\ UNCHANGED engineVars
  /\ UNCHANGED peripheryVars
  /\ UNCHANGED workerLogVars

\* ProjectService.delete up to the engine call: getById and the SELECT of
\* the project's build ids
deleteProject(r, p) ==
  /\ FreshPReq(r)
  /\ projects[p].exists
  /\ preqs' = [preqs EXCEPT ![r] =
       [NoPReq EXCEPT !.kind = "delete", !.pc = "engine", !.project = p,
          !.buildIds = BuildsOf(p)]]
  /\ UNCHANGED <<projects, envVars>>
  /\ UNCHANGED <<builds, deployments, artifacts, buildLogs, jobs, execs, creates,
                 deliveries>>
  /\ UNCHANGED engineVars
  /\ UNCHANGED peripheryVars
  /\ UNCHANGED workerLogVars

\* ProjectService.delete step 2: POST /projects/:id/delete on the engine
\* (DeployService.deleteProject: kill the process, remove the project
\* directory and the artifacts); a failure is logged and ignored
cleanupOnEngine(r) ==
  LET q == preqs[r]
      p == q.project IN
  /\ q.pc = "engine"
  /\ \/ /\ listener' = [listener EXCEPT ![p] = IF @ = pidFile[p] THEN 0 ELSE @]
        /\ pidFile' = [pidFile EXCEPT ![p] = 0]
        /\ current' = [current EXCEPT ![p] = 0]
        /\ currentBuildId' = [currentBuildId EXCEPT ![p] = 0]
        /\ tmpLink' = [tmpLink EXCEPT ![p] = [n \in TmpNames |-> 0]]
        /\ extracted' = extracted \ {b \in DOMAIN builds : builds[b].project_id = p}
        /\ artifacts' = artifacts \ q.buildIds
     \/ UNCHANGED <<listener, pidFile, current, currentBuildId, tmpLink, extracted,
                    artifacts>>
  /\ preqs' = [preqs EXCEPT ![r].pc = "del_env"]
  /\ UNCHANGED <<projects, envVars>>
  /\ UNCHANGED <<mode, calls, builds, deployments, buildLogs, jobs, execs, creates,
                 deliveries>>
  /\ UNCHANGED workerLogVars
  /\ UNCHANGED peripheryVars

\* ProjectService.delete: DELETE FROM environment_variables
deleteEnvVars(r) ==
  LET p == preqs[r].project IN
  /\ preqs[r].pc = "del_env"
  /\ envVars' = envVars \ EnvVarsOf(p)
  /\ preqs' = [preqs EXCEPT ![r].pc = "del_deployments"]
  /\ UNCHANGED projects
  /\ UNCHANGED <<builds, deployments, artifacts, buildLogs, jobs, execs, creates,
                 deliveries>>
  /\ UNCHANGED engineVars
  /\ UNCHANGED peripheryVars
  /\ UNCHANGED workerLogVars

\* ProjectService.delete: DELETE FROM deployments; a deleted row is kept in
\* the sequence with status deleted so that the ids of the other rows stay
deleteDeployments(r) ==
  LET p == preqs[r].project IN
  /\ preqs[r].pc = "del_deployments"
  /\ deployments' = [d \in DOMAIN deployments |->
                       IF d \in DeploymentsOf(p)
                         THEN [deployments[d] EXCEPT !.status = "deleted"]
                         ELSE deployments[d]]
  /\ preqs' = [preqs EXCEPT ![r].pc = "del_builds"]
  /\ UNCHANGED <<projects, envVars>>
  /\ UNCHANGED <<builds, artifacts, buildLogs, jobs, execs, creates, deliveries>>
  /\ UNCHANGED engineVars
  /\ UNCHANGED peripheryVars
  /\ UNCHANGED workerLogVars

\* ProjectService.delete: DELETE FROM builds, build_logs rows go with their
\* build (ON DELETE CASCADE)
deleteBuilds(r) ==
  LET p == preqs[r].project IN
  /\ preqs[r].pc = "del_builds"
  /\ builds' = [b \in DOMAIN builds |->
                  IF b \in BuildsOf(p) THEN [builds[b] EXCEPT !.status = "deleted"]
                                       ELSE builds[b]]
  /\ buildLogs' = {l \in buildLogs : l.build_id \notin BuildsOf(p)}
  /\ preqs' = [preqs EXCEPT ![r].pc = "del_project"]
  /\ UNCHANGED <<projects, envVars>>
  /\ UNCHANGED <<deployments, artifacts, jobs, execs, creates, deliveries>>
  /\ UNCHANGED engineVars
  /\ UNCHANGED peripheryVars
  /\ UNCHANGED workerLogVars

\* ProjectService.delete: DELETE FROM projects ... RETURNING and the
\* verification read; the foreign keys of builds, deployments and
\* environment_variables reject the DELETE while a row refers to the project
deleteProjectRow(r) ==
  LET p == preqs[r].project IN
  /\ preqs[r].pc = "del_project"
  /\ IF projects[p].exists
        /\ BuildsOf(p) = {} /\ DeploymentsOf(p) = {} /\ EnvVarsOf(p) = {}
       THEN /\ projects' = [projects EXCEPT ![p] = NoProject]
            /\ preqs' = [preqs EXCEPT ![r].pc = "done", ![r].outcome = "deleted"]
       ELSE /\ UNCHANGED projects
            /\ preqs' = [preqs EXCEPT ![r].pc = "failed", ![r].outcome = "delete_error"]
  /\ UNCHANGED envVars
  /\ UNCHANGED <<builds, deployments, artifacts, buildLogs, jobs, execs, creates,
                 deliveries>>
  /\ UNCHANGED engineVars
  /\ UNCHANGED peripheryVars
  /\ UNCHANGED workerLogVars

\* POST /projects/:id/builds for a project whose row exists, with
\* BuildService.create on the path where the INSERT, the enqueue and the
\* queue log entry succeed (the other paths are those of the build pipeline)
triggerBuild(p) ==
  /\ projects[p].exists
  /\ Len(builds) < MaxBuilds
  /\ builds' = Append(builds, NewBuild(p, 0))
  /\ jobs' = Append(jobs, [NoJob EXCEPT !.state = "waiting"])
  /\ creates' = Append(creates, [pc |-> "done", attempt |-> 0, response |-> "none"])
  /\ buildLogs' = buildLogs \cup {Log(Len(builds) + 1, "info", "queued")}
  /\ UNCHANGED <<deployments, artifacts, execs>>
  /\ UNCHANGED notBuildVars

\* project p1 with one deployed build and one environment variable
SeededInit ==
  /\ PeripheryIdle
  /\ projects = [p \in Projects |-> IF p = "p1" THEN [exists |-> TRUE, port |-> BasePort]
                                                ELSE NoProject]
  /\ envVars = {[project_id |-> "p1", key |-> "K"]}
  /\ builds = <<[project_id |-> "p1", status |-> "success", commit_sha |-> 0,
                 completed |-> TRUE]>>
  /\ deployments = <<[project_id |-> "p1", build_id |-> 1, status |-> "active"]>>
  /\ buildLogs = {Log(1, "info", "queued")}
  /\ jobs = <<[state |-> "completed", attemptsMade |-> 0]>>
  /\ creates = <<[pc |-> "done", attempt |-> 0, response |-> "none"]>>
  /\ artifacts = {1}
  /\ extracted = {1}
  /\ current = [p \in Projects |-> IF p = "p1" THEN 1 ELSE 0]
  /\ currentBuildId = [p \in Projects |-> IF p = "p1" THEN 1 ELSE 0]

\* the empty database
EmptyInit ==
  /\ PeripheryIdle
  /\ projects = [p \in Projects |-> NoProject]
  /\ envVars = {}
  /\ builds = << >>
  /\ deployments = << >>
  /\ buildLogs = {}
  /\ jobs = << >>
  /\ creates = << >>
  /\ artifacts = {}
  /\ extracted = {}
  /\ current = [p \in Projects |-> 0]
  /\ currentBuildId = [p \in Projects |-> 0]

InitProject ==
  /\ mode = "ts"
  /\ \/ SeededInit
     \/ EmptyInit
  /\ calls = [c \in CallIds |-> NoCall]
  /\ tmpLink = [p \in Projects |-> [n \in TmpNames |-> 0]]
  /\ pidFile = [p \in Projects |-> 0]
  /\ listener = [p \in Projects |-> 0]
  /\ execs = [e \in ExecIds |-> NoExec]
  /\ deliveries = [d \in DeliveryIds |-> NoDelivery]
  /\ preqs = [r \in PReqIds |-> NoPReq]
  /\ streamer = NoBuffer
  /\ flushes = [f \in FlushIds |-> NoFlush]
  /\ posts = << >>

NextProject ==
  \/ \E r \in PReqIds, p \in Projects, env \in BOOLEAN : createProject(r, p, env)
  \/ \E r \in PReqIds : checkPort(r)
  \/ \E r \in PReqIds : insertProject(r)
  \/ \E r \in PReqIds, p \in Projects : deleteProject(r, p)
  \/ \E r \in PReqIds : cleanupOnEngine(r)
  \/ \E r \in PReqIds : deleteEnvVars(r)
  \/ \E r \in PReqIds : deleteDeployments(r)
  \/ \E r \in PReqIds : deleteBuilds(r)
  \/ \E r \in PReqIds : deleteProjectRow(r)
  \/ \E p \in Projects : triggerBuild(p)

SpecProject == InitProject /\ [][NextProject]_vars

(***************************************************************************)
(* Build Worker log streamer and POST /builds/:id/logs                     *)
(***************************************************************************)
\* the build whose logs are streamed
LogBuild == 1

\* flush slots are taken in order
FreshFlush(f) ==
  /\ flushes[f].pc = "idle"
  /\ IF f = 1 THEN TRUE ELSE flushes[f - 1].pc # "idle"

\* flush: the Map byLevel, one group per level in the order in which the
\* levels first occur, each group holding its entries in buffer order
RECURSIVE byLevel(_, _)
byLevel(entries, acc) ==
  IF entries = << >>
    THEN acc
    ELSE LET e == Head(entries)
             pos == {i \in DOMAIN acc : acc[i].level = e.level} IN
         byLevel(Tail(entries),
                 IF pos = {}
                   THEN Append(acc, [level |-> e.level, ids |-> <<e.id>>])
                   ELSE [i \in DOMAIN acc |->
                           IF i \in pos THEN [acc[i] EXCEPT !.ids = Append(@, e.id)]
                                        ELSE acc[i]])

\* the fetch of flush f for one level group
Post(f, g) == [flush |-> f, level |-> g.level, ids |-> g.ids]

\* LogService.persist(id, logs, level || 'info')
Persisted(level, msg) ==
  buildLogs \cup {Log(LogBuild, IF level = "absent" THEN "info" ELSE level, msg)}

\* LogStreamer.stream: push the entry and arm the timer unless one is set.
\* The buffer is shared by everything that streams for the build, so a call
\* can come while ensureFlushed awaits its requests.
stream(level) ==
  /\ streamer.streamed < MaxEntries
  /\ streamer' = [streamer EXCEPT
       !.entries = Append(@, [id |-> streamer.streamed + 1, level |-> level]),
       !.streamed = @ + 1,
       !.timeout = TRUE]
  /\ UNCHANGED <<flushes, posts, buildLogs>>
  /\ UNCHANGED <<builds, deployments, artifacts, jobs, execs, creates, deliveries>>
  /\ UNCHANGED engineVars
  /\ UNCHANGED peripheryVars
  /\ UNCHANGED projectVars

\* LogStreamer.flush up to its first await, called by the timer
\* (final = FALSE) or by ensureFlushed in the finally block of
\* Builder.execute (final = TRUE): the buffer is taken and cleared, the timer
\* is cleared and the request for the first level group is issued
flush(f, final) ==
  /\ FreshFlush(f)
  /\ IF final THEN ~ streamer.finishing ELSE streamer.timeout
  /\ IF streamer.entries = << >>
       THEN /\ flushes' = [flushes EXCEPT ![f] = [NoFlush EXCEPT !.pc = "done",
                                                                   !.final = final]]
            /\ streamer' = [streamer EXCEPT !.finishing = @ \/ final,
                                            !.timeout = IF final THEN FALSE ELSE @]
            /\ UNCHANGED posts
       ELSE LET groups == byLevel(streamer.entries, << >>) IN
            /\ flushes' = [flushes EXCEPT ![f] =
                 [pc |-> "awaiting", groups |-> groups, idx |-> 1, final |-> final]]
            /\ streamer' = [streamer EXCEPT !.entries = << >>, !.timeout = FALSE,
                                            !.finishing = @ \/ final]
            /\ posts' = Append(posts, Post(f, groups[1]))
  /\ UNCHANGED buildLogs
  /\ UNCHANGED <<builds, deployments, artifacts, jobs, execs, creates, deliveries>>
  /\ UNCHANGED engineVars
  /\ UNCHANGED peripheryVars
  /\ UNCHANGED projectVars

\* the awaited fetch of flush f returns: the Control API persisted the
\* group, or the request failed; the loop issues the request of the next
\* group, and after the last group ensureFlushed deletes the buffer
fetchReturns(f) ==
  LET q == flushes[f]
      g == q.groups[q.idx] IN
  /\ q.pc = "awaiting"
  /\ \/ buildLogs' = Persisted(g.level, g.ids)
     \/ UNCHANGED buildLogs
  /\ IF q.idx < Len(q.groups)
       THEN /\ flushes' = [flushes EXCEPT ![f].idx = @ + 1]
            /\ posts' = Append(posts, Post(f, q.groups[q.idx + 1]))
            /\ UNCHANGED streamer
       ELSE /\ flushes' = [flushes EXCEPT ![f].pc = "done"]
            /\ UNCHANGED posts
            /\ streamer' = IF q.final
                             THEN [streamer EXCEPT !.entries = << >>, !.timeout = FALSE]
                             ELSE streamer
  /\ UNCHANGED <<builds, deployments, artifacts, jobs, execs, creates, deliveries>>
  /\ UNCHANGED engineVars
  /\ UNCHANGED peripheryVars
  /\ UNCHANGED projectVars

\* POST /builds/:id/logs from another client: the body is cast, not
\* validated, and its level is persisted as it is
postLogs(level) ==
  /\ Cardinality({l \in buildLogs : l.message = <<0>>}) < MaxRawPosts
  /\ buildLogs' = Persisted(level, <<0>>)
  /\ UNCHANGED <<streamer, flushes, posts>>
  /\ UNCHANGED <<builds, deployments, artifacts, jobs, execs, creates, deliveries>>
  /\ UNCHANGED engineVars
  /\ UNCHANGED peripheryVars
  /\ UNCHANGED projectVars

\* a build of p1 that the worker is executing
InitLogs ==
  /\ PeripheryIdle
  /\ mode = "ts"
  /\ builds = <<[project_id |-> "p1", status |-> "building", commit_sha |-> 0,
                 completed |-> FALSE]>>
  /\ deployments = << >>
  /\ calls = [c \in CallIds |-> NoCall]
  /\ artifacts = {}
  /\ extracted = {}
  /\ current = [p \in Projects |-> 0]
  /\ currentBuildId = [p \in Projects |-> 0]
  /\ tmpLink = [p \in Projects |-> [n \in TmpNames |-> 0]]
  /\ pidFile = [p \in Projects |-> 0]
  /\ listener = [p \in Projects |-> 0]
  /\ buildLogs = {}
  /\ jobs = <<[state |-> "active", attemptsMade |-> 0]>>
  /\ execs = [e \in ExecIds |-> IF e = 1 THEN [NoExec EXCEPT !.build = LogBuild,
                                                 !.origin = "queue", !.pc = "work"]
                                         ELSE NoExec]
  /\ creates = <<[pc |-> "done", attempt |-> 0, response |-> "none"]>>
  /\ deliveries = [d \in DeliveryIds |-> NoDelivery]
  /\ projects = SeededProjects
  /\ envVars = {}
  /\ preqs = [r \in PReqIds |-> NoPReq]
  /\ streamer = NoBuffer
  /\ flushes = [f \in FlushIds |-> NoFlush]
  /\ posts = << >>

NextLogs ==
  \/ \E level \in StreamLevels : stream(level)
  \/ \E f \in FlushIds, final \in BOOLEAN : flush(f, final)
  \/ \E f \in FlushIds : fetchReturns(f)
  \/ \E level \in BodyLevels : postLogs(level)

SpecLogs == InitLogs /\ [][NextLogs]_vars

(***************************************************************************)
(* Control Plane: installation events                                      *)
(***************************************************************************)
\* the engine, the requests and the tables other than builds, build_logs and
\* the queue are as after start-up with both projects created
PipelineIdle ==
  /\ mode = "ts"
  /\ deployments = << >>
  /\ calls = [c \in CallIds |-> NoCall]
  /\ artifacts = {}
  /\ extracted = {}
  /\ current = [p \in Projects |-> 0]
  /\ currentBuildId = [p \in Projects |-> 0]
  /\ tmpLink = [p \in Projects |-> [n \in TmpNames |-> 0]]
  /\ pidFile = [p \in Projects |-> 0]
  /\ listener = [p \in Projects |-> 0]
  /\ execs = [e \in ExecIds |-> NoExec]
  /\ deliveries = [d \in DeliveryIds |-> NoDelivery]
  /\ projects = SeededProjects
  /\ envVars = {}
  /\ preqs = [r \in PReqIds |-> NoPReq]
  /\ streamer = NoBuffer
  /\ flushes = [f \in FlushIds |-> NoFlush]
  /\ posts = << >>

\* no build exists
BuildsIdle ==
  /\ builds = << >>
  /\ buildLogs = {}
  /\ jobs = << >>
  /\ creates = << >>

pipelineVars == <<mode, builds, deployments, calls, artifacts, extracted, current,
                  currentBuildId, tmpLink, pidFile, listener, buildLogs, jobs, execs,
                  creates, deliveries, projects, envVars, preqs, streamer, flushes,
                  posts>>

\* event slots are taken in order
FreshInstallEvent(w) ==
  /\ installEvents[w].pc = "idle"
  /\ IF w = 1 THEN TRUE ELSE installEvents[w - 1].pc # "idle"

\* projects whose github_installation_id is i
Referencing(i) == {p \in Projects : installOf[p] = i}

\* keys an HMAC can be computed with: 1 is the secret GitHub signs with
Keys == {1, 2}

\* raw bodies of installation events
Payload(action, i) == [event |-> "installation", action |-> action, installation |-> i]

Payloads == {Payload(action, i) : action \in {"created", "deleted"}, i \in InstallationIds}

\* createHmac('sha256', secret).update(payload).digest('hex'): the digest is
\* determined by the key and the body, and differs when either differs
Hmac(k, body) == <<k, body>>

\* the x-hub-signature-256 header: absent, or `<alg>=<hex>`
NoSignature == [present |-> FALSE, alg |-> "", digest |-> Hmac(0, Payload("none", 0))]

SignatureHeaders ==
  {NoSignature} \cup
  {[present |-> TRUE, alg |-> alg, digest |-> Hmac(k, body)] :
     alg \in {"sha256", "sha1"}, k \in Keys, body \in Payloads}

\* a verification that accepts any header with the sha256 prefix
verifyWebhookSignature_prefixOnly(payload, signature) ==
  IF webhookSecret = 0 THEN "throw"
  ELSE IF signature.alg = "sha256" THEN "true"
  ELSE "false"

\* GitHubService.verifyWebhookSignature: throws without a secret, else
\* compares `sha256=<hmac of the payload>` with the header
verifyWebhookSignature(payload, signature) ==
  IF webhookSecret = 0 THEN "throw"
  ELSE IF signature.alg = "sha256" /\ signature.digest = Hmac(webhookSecret, payload)
    THEN "true"
  ELSE "false"

\* steps 1 and 2 of the handler: the status it answers with, 0 when the
\* request passes on to the parsing of the payload
Gate(body, signature) ==
  IF ~ signature.present THEN 401
  ELSE IF verifyWebhookSignature(body, signature) = "throw" THEN 500
  ELSE IF verifyWebhookSignature(body, signature) = "false" THEN 401
  ELSE 0

\* the header is missing or is not the HMAC-SHA256 of the body under the
\* secret GitHub signs with
BadSignature(body, signature) ==
  \/ ~ signature.present
  \/ signature.alg # "sha256"
  \/ signature.digest # Hmac(1, body)

\* the event record of a request the handler answered at steps 1 and 2
Rejected(body, signature) ==
  [NoInstallEvent EXCEPT !.pc = "rejected", !.status = Gate(body, signature),
                         !.bad = BadSignature(body, signature)]

\* installation / created: INSERT ... ON CONFLICT DO UPDATE
installationCreated(w, i, signature) ==
  LET body == Payload("created", i) IN
  /\ FreshInstallEvent(w)
  /\ IF Gate(body, signature) # 0
       THEN /\ installEvents' = [installEvents EXCEPT ![w] = Rejected(body, signature)]
            /\ UNCHANGED installations
       ELSE /\ installations' = installations \cup {i}
            /\ installEvents' = [installEvents EXCEPT ![w] =
                 [pc |-> "done", action |-> "created", installation |-> i,
                  status |-> 200, bad |-> BadSignature(body, signature)]]
  /\ UNCHANGED <<installOf, webhookSecret>>
  /\ UNCHANGED pipelineVars
  /\ UNCHANGED peripheryButInstall

\* PUT /projects/:id with github_installation_id: ProjectService.update
\* sets the column; the foreign key requires the installation row
connectProject(p, i) ==
  /\ i \in installations
  /\ installOf[p] # i
  /\ installOf' = [installOf EXCEPT ![p] = i]
  /\ UNCHANGED <<installations, installEvents, webhookSecret>>
  /\ UNCHANGED pipelineVars
  /\ UNCHANGED peripheryButInstall

\* installation / deleted, first statement: DELETE FROM github_installations.
\* projects.github_installation_id references the row without an ON DELETE
\* action, so the statement throws while a project references it; the
\* exception reaches the catch block of the handler, which answers 500
deleteInstallation(w, i, signature) ==
  LET body == Payload("deleted", i) IN
  /\ FreshInstallEvent(w)
  /\ IF Gate(body, signature) # 0
       THEN /\ installEvents' = [installEvents EXCEPT ![w] = Rejected(body, signature)]
            /\ UNCHANGED installations
     ELSE IF Referencing(i) = {}
       THEN /\ installations' = installations \ {i}
            /\ installEvents' = [installEvents EXCEPT ![w] =
                 [pc |-> "update", action |-> "deleted", installation |-> i,
                  status |-> 0, bad |-> BadSignature(body, signature)]]
       ELSE /\ UNCHANGED installations
            /\ installEvents' = [installEvents EXCEPT ![w] =
                 [pc |-> "failed", action |-> "deleted", installation |-> i,
                  status |-> 500, bad |-> BadSignature(body, signature)]]
  /\ UNCHANGED <<installOf, webhookSecret>>
  /\ UNCHANGED pipelineVars
  /\ UNCHANGED peripheryButInstall

\* installation / deleted, second statement: UPDATE projects SET
\* github_installation_id = NULL WHERE github_installation_id = <id>
disconnectProjects(w) ==
  LET i == installEvents[w].installation IN
  /\ installEvents[w].pc = "update"
  /\ installOf' = [p \in Projects |-> IF installOf[p] = i THEN 0 ELSE installOf[p]]
  /\ installEvents' = [installEvents EXCEPT ![w].pc = "done", ![w].status = 200]
  /\ UNCHANGED <<installations, webhookSecret>>
  /\ UNCHANGED pipelineVars
  /\ UNCHANGED peripheryButInstall

\* one installation is registered and no project is connected to it yet;
\* the webhook secret is configured or not
InitInstall ==
  /\ PipelineIdle
  /\ BuildsIdle
  /\ FanoutIdle
  /\ CloneIdle
  /\ LaunchIdle /\ RewriteIdle /\ CheckIdle /\ RetryIdle /\ DockerIdle
  /\ installations = {1}
  /\ installOf = [p \in Projects |-> 0]
  /\ installEvents = [w \in InstallEventIds |-> NoInstallEvent]
  /\ webhookSecret \in {0, 1}

NextInstall ==
  \/ \E w \in InstallEventIds, i \in InstallationIds, signature \in SignatureHeaders :
       installationCreated(w, i, signature)
  \/ \E p \in Projects, i \in InstallationIds : connectProject(p, i)
  \/ \E w \in InstallEventIds, i \in InstallationIds, signature \in SignatureHeaders :
       deleteInstallation(w, i, signature)
  \/ \E w \in InstallEventIds : disconnectProjects(w)

SpecInstall == InitInstall /\ [][NextInstall]_vars

(***************************************************************************)
(* Control Plane: log fan-out to sockets                                   *)
(***************************************************************************)
\* request slots are taken in order
FreshLogReq(q) ==
  /\ logReqs[q].pc = "idle"
  /\ IF q = 1 THEN TRUE ELSE logReqs[q - 1].pc # "idle"

\* the build_log message emitted by WebSocketService.broadcast
BuildLog(b, msg, level) == [buildId |-> b, data |-> msg, level |-> level]

\* level || 'info'
LevelOrInfo(level) == IF level = "absent" THEN "info" ELSE level

\* sockets in the room `build:<b>`
Members(b) == {s \in Sockets : b \in rooms[s]}

\* WebSocketService.broadcast: io.to(`build:<b>`).emit('build_log', ...)
\* reaches the sockets that are in the room at the time of the call
broadcast(b, msg, level) ==
  /\ published' = Append(published, [msg |-> BuildLog(b, msg, level),
                                     members |-> Members(b)])
  /\ inbox' = [s \in Sockets |->
                 IF s \in Members(b)
                   THEN Append(inbox[s], [msg |-> BuildLog(b, msg, level),
                                          n |-> Len(published) + 1])
                   ELSE inbox[s]]

\* socket.on('subscribe_build'): the socket joins the room of the build
subscribe_build(s, b) ==
  /\ b \notin rooms[s]
  /\ rooms' = [rooms EXCEPT ![s] = @ \cup {b}]
  /\ UNCHANGED <<inbox, published, logReqs, queueEvents>>
  /\ UNCHANGED <<builds, deployments, artifacts, buildLogs, jobs, execs, creates,
                 deliveries>>
  /\ UNCHANGED engineVars
  /\ UNCHANGED projectVars
  /\ UNCHANGED workerLogVars
  /\ UNCHANGED peripheryButFanout

\* POST /builds/:id/logs up to the await of LogService.persist: the INSERT
\* commits, or it throws (the build id has no row in builds, which the
\* foreign key of build_logs refuses, or the database fails) and the
\* handler ends without a broadcast. The text of the request is its number.
postLogsPersist(q, b, level) ==
  /\ FreshLogReq(q)
  /\ \/ /\ b \in DOMAIN builds
        /\ buildLogs' = buildLogs \cup {Log(b, LevelOrInfo(level), ToString(q))}
        /\ logReqs' = [logReqs EXCEPT ![q] =
             [pc |-> "persisted", build |-> b, level |-> level,
              message |-> ToString(q)]]
     \/ /\ UNCHANGED buildLogs
        /\ logReqs' = [logReqs EXCEPT ![q] =
             [pc |-> "failed", build |-> b, level |-> level,
              message |-> ToString(q)]]
  /\ UNCHANGED <<rooms, inbox, published, queueEvents>>
  /\ UNCHANGED <<builds, deployments, artifacts, jobs, execs, creates, deliveries>>
  /\ UNCHANGED engineVars
  /\ UNCHANGED projectVars
  /\ UNCHANGED workerLogVars
  /\ UNCHANGED peripheryButFanout

\* POST /builds/:id/logs after the await: WebSocketService.broadcast
postLogsBroadcast(q) ==
  /\ logReqs[q].pc = "persisted"
  /\ broadcast(logReqs[q].build, logReqs[q].message, LevelOrInfo(logReqs[q].level))
  /\ logReqs' = [logReqs EXCEPT ![q].pc = "done"]
  /\ UNCHANGED <<rooms, queueEvents>>
  /\ UNCHANGED <<builds, deployments, artifacts, buildLogs, jobs, execs, creates,
                 deliveries>>
  /\ UNCHANGED engineVars
  /\ UNCHANGED projectVars
  /\ UNCHANGED workerLogVars
  /\ UNCHANGED peripheryButFanout

\* BuildService.create reaches BuildQueue.addJob: the job is added and the
\* queue emits its 'waiting' event
addJob(b) ==
  /\ b \in DOMAIN creates
  /\ creates[b].pc = "enqueue"
  /\ jobs' = [jobs EXCEPT ![b].state = "waiting"]
  /\ queueEvents' = Append(queueEvents, [event |-> "waiting", jobId |-> b])
  /\ creates' = [creates EXCEPT ![b].pc = "log"]
  /\ UNCHANGED <<rooms, inbox, published, logReqs>>
  /\ UNCHANGED <<builds, deployments, artifacts, buildLogs, execs, deliveries>>
  /\ UNCHANGED engineVars
  /\ UNCHANGED projectVars
  /\ UNCHANGED workerLogVars
  /\ UNCHANGED peripheryButFanout

\* BuildService.create after addJob: LogService.persist of the queue status
\* line, or an exception on the way to it (the catch block writes no entry)
persistQueued(b) ==
  /\ b \in DOMAIN creates
  /\ creates[b].pc = "log"
  /\ \/ /\ buildLogs' = buildLogs \cup {Log(b, "info", "queued")}
        /\ creates' = [creates EXCEPT ![b].pc = "done"]
        /\ UNCHANGED builds
     \/ /\ UNCHANGED buildLogs
        /\ creates' = [creates EXCEPT ![b].pc = "submit_failed"]
        /\ builds' = [builds EXCEPT ![b].status = "failed", ![b].completed = TRUE]
  /\ UNCHANGED fanoutVars
  /\ UNCHANGED <<deployments, artifacts, jobs, execs, deliveries>>
  /\ UNCHANGED engineVars
  /\ UNCHANGED projectVars
  /\ UNCHANGED workerLogVars
  /\ UNCHANGED peripheryButFanout

\* queueEvents.on('waiting'): the listener broadcasts the queue status line
\* of the job's build. The line is taken to be the text that create persists.
onWaiting ==
  /\ queueEvents # << >>
  /\ Head(queueEvents).event = "waiting"
  /\ queueEvents' = Tail(queueEvents)
  /\ IF jobs[Head(queueEvents).jobId].state # "none"
       THEN broadcast(Head(queueEvents).jobId, "queued", "info")
       ELSE UNCHANGED <<inbox, published>>
  /\ UNCHANGED <<rooms, logReqs>>
  /\ UNCHANGED <<builds, deployments, artifacts, buildLogs, jobs, execs, creates,
                 deliveries>>
  /\ UNCHANGED engineVars
  /\ UNCHANGED projectVars
  /\ UNCHANGED workerLogVars
  /\ UNCHANGED peripheryButFanout

\* builds of p1: the row of build 1 is inserted and its job is not yet
\* added, the creation of the others has returned
InitFanout ==
  /\ PipelineIdle
  /\ builds = [b \in 1..MaxBuilds |-> NewBuild("p1", 0)]
  /\ buildLogs = {Log(b, "info", "queued") : b \in 2..MaxBuilds}
  /\ jobs = [b \in 1..MaxBuilds |->
               IF b = 1 THEN NoJob ELSE [NoJob EXCEPT !.state = "waiting"]]
  /\ creates = [b \in 1..MaxBuilds |->
                  [pc |-> IF b = 1 THEN "enqueue" ELSE "done", attempt |-> 0, response |-> "none"]]
  /\ FanoutIdle
  /\ InstallIdle
  /\ CloneIdle
  /\ LaunchIdle /\ RewriteIdle /\ CheckIdle /\ RetryIdle /\ DockerIdle

NextFanout ==
  \/ \E s \in Sockets, b \in 1..MaxBuilds : subscribe_build(s, b)
  \/ \E q \in LogReqIds, b \in 1..(MaxBuilds + 1), level \in {"absent", "error"} :
       postLogsPersist(q, b, level)
  \/ \E q \in LogReqIds : postLogsBroadcast(q)
  \/ \E b \in 1..MaxBuilds : addJob(b)
  \/ \E b \in 1..MaxBuilds : persistQueued(b)
  \/ onWaiting

SpecFanout == InitFanout /\ [][NextFanout]_vars

(***************************************************************************)
(* Build Worker: what a run logs, for two runs that differ in the token    *)
(***************************************************************************)
\* a log message: its fixed text and the credential that appears in it, 0 = none
Message(text, cred) == [text |-> text, cred |-> cred]

\* LogStreamer.stream as seen by the Control Plane: the message is appended
\* to what the run sends
Streamed(run, msg) == Append(run.logs, msg)

\* urlToClone of GitService.clone: with a token the URL carries
\* `x-access-token:<token>@`, without one it is the repository URL
urlToClone(token) == [cred |-> token]

\* the message of the error git clone fails with: git's text, which quotes
\* the URL it was given when gitEnv.quotesUrl
CloneError(token) ==
  Message("fatal: unable to access", IF gitEnv.quotesUrl THEN urlToClone(token).cred ELSE 0)

\* Builder.execute up to the token request: 'Starting build', then
\* 'Authenticating with GitHub App...' and getInstallationToken, whose failure
\* is streamed and rethrown
getInstallationToken(r) ==
  LET run == cloneRuns[r]
      started == Streamed(run, Message("Starting build", 0))
      asked == Append(started, Message("Authenticating with GitHub App...", 0)) IN
  /\ run.pc = "start"
  /\ cloneRuns' = [cloneRuns EXCEPT ![r] =
       IF gitEnv.auth = "ok"
         THEN [run EXCEPT !.pc = "clone", !.logs = asked]
         ELSE [run EXCEPT !.pc = "catch",
                          !.error = Message("Failed to get installation token", 0),
                          !.logs = Append(asked, Message("GitHub Auth Failed", 0))]]
  /\ UNCHANGED gitEnv
  /\ UNCHANGED pipelineVars
  /\ UNCHANGED peripheryButClone

\* 'Cloning repository...' and GitService.clone with the token
clone(r) ==
  LET run == cloneRuns[r]
      cloning == Streamed(run, Message("Cloning repository...", 0)) IN
  /\ run.pc = "clone"
  /\ cloneRuns' = [cloneRuns EXCEPT ![r] =
       IF gitEnv.clone = "ok"
         THEN [run EXCEPT !.pc = "build", !.logs = cloning]
         ELSE [run EXCEPT !.pc = "catch", !.error = CloneError(run.token),
                          !.logs = cloning]]
  /\ UNCHANGED gitEnv
  /\ UNCHANGED pipelineVars
  /\ UNCHANGED peripheryButClone

\* the rest of the try block: build, artifact upload, 'Artifact uploaded successfully!'
buildAndUpload(r) ==
  LET run == cloneRuns[r] IN
  /\ run.pc = "build"
  /\ cloneRuns' = [cloneRuns EXCEPT ![r] =
       [run EXCEPT !.pc = "done",
                   !.logs = Streamed(run, Message("Artifact uploaded successfully!", 0))]]
  /\ UNCHANGED gitEnv
  /\ UNCHANGED pipelineVars
  /\ UNCHANGED peripheryButClone

\* the catch block: `Build failed: ${error.message}` is streamed
catchError(r) ==
  LET run == cloneRuns[r] IN
  /\ run.pc = "catch"
  /\ cloneRuns' = [cloneRuns EXCEPT ![r] =
       [run EXCEPT !.pc = "done",
                   !.logs = Streamed(run, Message("Build failed: " \o run.error.text,
                                                  run.error.cred))]]
  /\ UNCHANGED gitEnv
  /\ UNCHANGED pipelineVars
  /\ UNCHANGED peripheryButClone

\* two runs of the same job with an installation id; token is the one
\* GitHub issues to the run, and both runs meet the same GitHub and git
InitClone ==
  /\ PipelineIdle
  /\ BuildsIdle
  /\ FanoutIdle
  /\ InstallIdle
  /\ LaunchIdle /\ RewriteIdle /\ CheckIdle /\ RetryIdle /\ DockerIdle
  /\ cloneRuns \in [Runs -> {[NoRun EXCEPT !.pc = "start", !.token = t] : t \in Tokens}]
  /\ gitEnv \in [auth : {"ok", "fail"}, clone : {"ok", "fail"}, quotesUrl : BOOLEAN]

NextClone ==
  \/ \E r \in Runs : getInstallationToken(r)
  \/ \E r \in Runs : clone(r)
  \/ \E r \in Runs : buildAndUpload(r)
  \/ \E r \in Runs : catchError(r)

SpecClone == InitClone /\ [][NextClone]_vars

(***************************************************************************)
(* Deploy Engine: the environment of the launched application              *)
(***************************************************************************)
EnvKeys == <<"PORT", "NODE_ENV">>

\* the entries KEY=value of an environment, for the keys it sets
RECURSIVE EntriesFrom(_, _)
EntriesFrom(env, i) ==
  IF i > Len(EnvKeys) THEN << >>
  ELSE (IF env[EnvKeys[i]] = "unset" THEN << >> ELSE <<<<EnvKeys[i], env[EnvKeys[i]]>>>>)
       \o EntriesFrom(env, i + 1)

Entries(env) == EntriesFrom(env, 1)

\* the value a process sees for a key when entries repeat it: object spread,
\* exec.Cmd.Env and `docker run -e` all let the last entry win
Effective(entries, key) ==
  LET at == {i \in DOMAIN entries : entries[i][1] = key} IN
  IF at = {} THEN "unset"
  ELSE entries[CHOOSE i \in at : \A j \in at : j <= i][2]

\* the port the platform assigns: the project port for a process, the
\* internal port for a container
ProjectPort == "8000"
InternalPort == "3000"

\* deploy-engine, startApplication: env of Bun.spawn
spawnEnv(osEnv, projectEnv, port) ==
  Entries(osEnv) \o Entries(projectEnv)
    \o <<<<"NODE_ENV", "production">>, <<"PLATFORM_ENV", "production">>, <<"PORT", port>>>>

\* deploy-engine-go, startApplication: cmd.Env
cmdEnv(osEnv, projectEnv, port) ==
  Entries(osEnv) \o <<<<"PORT", port>>>> \o Entries(projectEnv)

\* RunContainer: the -e flags of docker run
envFlags(projectEnv, internalPort) ==
  <<<<"NODE_ENV", "production">>>> \o Entries(projectEnv)
    \o (IF projectEnv["PORT"] = "unset" THEN <<<<"PORT", internalPort>>>> ELSE << >>)

\* the application is started by the TypeScript engine
bunSpawn ==
  /\ launch.engine = "none"
  /\ launch' = [launch EXCEPT !.engine = "ts",
                              !.env = spawnEnv(launch.osEnv, launch.envVars, ProjectPort)]
  /\ UNCHANGED <<rewrite, subdomainCheck, retryRun, docker>>
  /\ UNCHANGED pipelineVars
  /\ UNCHANGED peripheryButFunctions

\* the application is started as a process by the Go engine
execCommand ==
  /\ launch.engine = "none"
  /\ launch' = [launch EXCEPT !.engine = "go",
                              !.env = cmdEnv(launch.osEnv, launch.envVars, ProjectPort)]
  /\ UNCHANGED <<rewrite, subdomainCheck, retryRun, docker>>
  /\ UNCHANGED pipelineVars
  /\ UNCHANGED peripheryButFunctions

\* the application is started as a container by the Go engine
RunContainer ==
  /\ launch.engine = "none"
  /\ launch' = [launch EXCEPT !.engine = "docker",
                              !.env = envFlags(launch.envVars, InternalPort)]
  /\ UNCHANGED <<rewrite, subdomainCheck, retryRun, docker>>
  /\ UNCHANGED pipelineVars
  /\ UNCHANGED peripheryButFunctions

\* the environment of the engine process and the project's environment
\* variables, each with or without PORT and NODE_ENV
InitLaunch ==
  /\ PipelineIdle
  /\ BuildsIdle
  /\ FanoutIdle /\ InstallIdle /\ CloneIdle /\ RewriteIdle /\ CheckIdle
  /\ RetryIdle /\ DockerIdle
  /\ launch \in {[NoLaunch EXCEPT !.osEnv = o, !.envVars = e] :
       o \in [PORT : {"unset", "4002"}, NODE_ENV : {"unset", "development"}],
       e \in [PORT : {"unset", "8000", "9999"},
              NODE_ENV : {"unset", "development", "production"}]}

NextLaunch ==
  \/ bunSpawn
  \/ execCommand
  \/ RunContainer

SpecLaunch == InitLaunch /\ [][NextLaunch]_vars

(***************************************************************************)
(* Builder.convertToBunCommand (build-worker).  A command is a sequence of *)
(* lexemes: a word (a maximal run of \w characters), one whitespace        *)
(* character " " or one ampersand "&".  Two words never stand next to each *)
(* other, since together they would be one longer word.                    *)
(***************************************************************************)
Words == {"npm", "yarn", "pnpm", "install", "installs", "i", "ci", "run", "add",
          "build"}

Lexemes == Words \cup {" ", "&"}

\* \w: the lexeme is a word; "bun" is a word the rewrite itself produces
IsWord(t) == t \notin {" ", "&"}

RECURSIVE CommandsOfLen(_)
CommandsOfLen(n) ==
  IF n = 0 THEN {<< >>}
  ELSE {Append(c, t) : <<c, t>> \in
          {ct \in CommandsOfLen(n - 1) \X Lexemes :
             ~ (Len(ct[1]) > 0 /\ IsWord(ct[1][Len(ct[1])]) /\ IsWord(ct[2]))}}

Commands == UNION {CommandsOfLen(n) : n \in 0..MaxCmdLen}

\* String.prototype.split('&&'): the pieces between successive
\* non-overlapping occurrences of "&&", found from the left
RECURSIVE split(_, _)
split(s, cur) ==
  IF s = << >> THEN <<cur>>
  ELSE IF Len(s) >= 2 /\ s[1] = "&" /\ s[2] = "&"
       THEN <<cur>> \o split(SubSeq(s, 3, Len(s)), << >>)
       ELSE split(Tail(s), Append(cur, s[1]))

RECURSIVE trimStart(_)
trimStart(s) ==
  IF s # << >> /\ s[1] = " " THEN trimStart(Tail(s)) ELSE s

RECURSIVE trimEnd(_)
trimEnd(s) ==
  IF s # << >> /\ s[Len(s)] = " " THEN trimEnd(SubSeq(s, 1, Len(s) - 1)) ELSE s

\* a trim that removes leading whitespace only
trim_startOnly(s) == trimStart(s)

\* String.prototype.trim
trim(s) == trimEnd(trimStart(s))

\* Array.prototype.join(' && ')
RECURSIVE join(_)
join(parts) ==
  IF Len(parts) = 0 THEN << >>
  ELSE IF Len(parts) = 1 THEN parts[1]
  ELSE parts[1] \o <<" ", "&", "&", " ">> \o join(Tail(parts))

\* the index of the first lexeme at or after k that is not whitespace
RECURSIVE SkipWs(_, _)
SkipWs(part, k) ==
  IF k <= Len(part) /\ part[k] = " " THEN SkipWs(part, k + 1) ELSE k

\* /^<manager>\s+/ : the part starts with the word and at least one whitespace
StartsWith(part, manager) ==
  Len(part) >= 2 /\ part[1] = manager /\ part[2] = " "

\* /^<manager>\s+<word>\b/ for a word among subs
Sub(part, manager, subs) ==
  /\ StartsWith(part, manager)
  /\ SkipWs(part, 2) <= Len(part)
  /\ part[SkipWs(part, 2)] \in subs
  /\ \/ SkipWs(part, 2) = Len(part)
     \/ ~ IsWord(part[SkipWs(part, 2) + 1])

\* what follows the matched <manager>\s+<word>
AfterSub(part) == SubSeq(part, SkipWs(part, 2) + 1, Len(part))

\* /^yarn\s+\w+/ without /^yarn\s+(add|remove|install)/, which has no \b:
\* any word that starts with add, remove or install is left alone
YarnScript(part) ==
  /\ StartsWith(part, "yarn")
  /\ SkipWs(part, 2) <= Len(part)
  /\ IsWord(part[SkipWs(part, 2)])
  /\ part[SkipWs(part, 2)] \notin {"add", "remove", "install", "installs"}

BunInstall == <<"bun", " ", "install">>

BunRun == <<"bun", " ", "run">>

\* the function mapped over the parts
convertPart(part) ==
  IF Sub(part, "npm", {"install", "i"}) THEN BunInstall \o AfterSub(part)
  ELSE IF Sub(part, "npm", {"run"}) THEN BunRun \o AfterSub(part)
  ELSE IF Sub(part, "npm", {"ci"}) THEN BunInstall \o AfterSub(part)
  ELSE IF Sub(part, "yarn", {"install"}) THEN BunInstall \o AfterSub(part)
  ELSE IF part = <<"yarn">> THEN BunInstall
  ELSE IF YarnScript(part)
    THEN BunRun \o <<" ">> \o SubSeq(part, SkipWs(part, 2), Len(part))
  ELSE IF Sub(part, "pnpm", {"install", "i"}) THEN BunInstall \o AfterSub(part)
  ELSE IF Sub(part, "pnpm", {"run"}) THEN BunRun \o AfterSub(part)
  ELSE part

convertToBunCommand(command) ==
  LET parts == split(command, << >>)
      trimmed == [k \in 1..Len(parts) |-> trim(parts[k])]
      convertedParts == [k \in 1..Len(trimmed) |-> convertPart(trimmed[k])]
  IN join(convertedParts)

\* runCommand rewrites the command it is given
runCommand ==
  /\ rewrite.applied = 0
  /\ rewrite' = [rewrite EXCEPT !.applied = 1,
                                !.once = convertToBunCommand(rewrite.command)]
  /\ UNCHANGED <<launch, subdomainCheck, retryRun, docker>>
  /\ UNCHANGED pipelineVars
  /\ UNCHANGED peripheryButFunctions

\* the rewritten command is given to runCommand again
runCommandAgain ==
  /\ rewrite.applied = 1
  /\ rewrite' = [rewrite EXCEPT !.applied = 2,
                                !.twice = convertToBunCommand(rewrite.once)]
  /\ UNCHANGED <<launch, subdomainCheck, retryRun, docker>>
  /\ UNCHANGED pipelineVars
  /\ UNCHANGED peripheryButFunctions

InitRewrite ==
  /\ PipelineIdle
  /\ BuildsIdle
  /\ FanoutIdle /\ InstallIdle /\ CloneIdle /\ LaunchIdle /\ CheckIdle
  /\ RetryIdle /\ DockerIdle
  /\ rewrite \in {[NoRewrite EXCEPT !.command = c] : c \in Commands}

NextRewrite ==
  \/ runCommand
  \/ runCommandAgain

SpecRewrite == InitRewrite /\ [][NextRewrite]_vars


(***************************************************************************)
(* NginxService.IsSubdomainAllowed (deploy-engine-go).  A subdomain is a   *)
(* sequence of characters.                                                 *)
(***************************************************************************)
\* the characters a requested subdomain is drawn from: lower-case letters,
\* an upper-case letter, a digit, the hyphen, a space and the underscore
Chars == {"d", "b", "D", "1", "-", " ", "_"}

Subdomains == UNION {[1..n -> Chars] : n \in 0..MaxSubLen}

reservedSubdomains ==
  { <<"w", "w", "w">>, <<"a", "p", "i">>, <<"a", "d", "m", "i", "n">>,
    <<"d", "a", "s", "h", "b", "o", "a", "r", "d">>,
    <<"d", "e", "p", "l", "o", "y">>, <<"g", "i", "t">>, <<"d", "b">>,
    <<"m", "a", "i", "l">>, <<"s", "t", "a", "g", "i", "n", "g">>,
    <<"d", "e", "v">> }

\* strings.ToLower on the characters of Chars
ToLower(s) == [k \in 1..Len(s) |-> IF s[k] = "D" THEN "d" ELSE s[k]]

\* strings.TrimSpace
RECURSIVE TrimSpace(_)
TrimSpace(s) ==
  IF s # << >> /\ s[1] = " " THEN TrimSpace(Tail(s))
  ELSE IF s # << >> /\ s[Len(s)] = " " THEN TrimSpace(SubSeq(s, 1, Len(s) - 1))
  ELSE s

\* the characters of the class [a-z0-9-] that occur in Chars
Class == {"d", "b", "1", "-"}

\* regexp.MatchString(`^[a-z0-9-]+$`, s)
MatchString(s) == Len(s) >= 1 /\ \A k \in 1..Len(s) : s[k] \in Class

IsSubdomainAllowed(sub) ==
  IF sub = << >> THEN FALSE
  ELSE LET s == ToLower(TrimSpace(sub))
       IN IF s \in reservedSubdomains THEN FALSE
          ELSE IF ~ MatchString(s) THEN FALSE
          ELSE IF s[1] = "-" \/ s[Len(s)] = "-" THEN FALSE
          ELSE TRUE

\* CreateConfig writes the proxy rule of a subdomain the test allows
CreateConfig ==
  /\ ~ subdomainCheck.checked
  /\ subdomainCheck' = [subdomainCheck EXCEPT
                          !.checked = TRUE,
                          !.allowed = IsSubdomainAllowed(subdomainCheck.sub)]
  /\ UNCHANGED <<launch, rewrite, retryRun, docker>>
  /\ UNCHANGED pipelineVars
  /\ UNCHANGED peripheryButFunctions

InitSubdomain ==
  /\ PipelineIdle
  /\ BuildsIdle
  /\ FanoutIdle /\ InstallIdle /\ CloneIdle /\ LaunchIdle /\ RewriteIdle
  /\ RetryIdle /\ DockerIdle
  /\ subdomainCheck \in {[NoCheck EXCEPT !.sub = s] : s \in Subdomains}

NextSubdomain == CreateConfig

SpecSubdomain == InitSubdomain /\ [][NextSubdomain]_vars

(***************************************************************************)
(* retry (deploy-engine).  Time is counted in clock ticks since `start`;   *)
(* it passes while fn runs and during the delay between attempts.          *)
(***************************************************************************)
\* delayMs, in clock ticks
DelayTicks == 1

\* a loop head that does not look at the clock
retryAttempt_noBudget ==
  /\ retryRun.pc = "top"
  /\ IF retryRun.attempt > retryRun.retries
       THEN retryRun' = [retryRun EXCEPT !.pc = "done", !.outcome = "threw",
              !.thrown = IF retryRun.lastErr = 0 THEN "undefined" ELSE "lastErr"]
       ELSE retryRun' = [retryRun EXCEPT !.pc = "running", !.invoked = @ + 1,
              !.late = @ \/ (retryRun.elapsed > retryRun.timeoutMs)]
  /\ UNCHANGED <<launch, rewrite, subdomainCheck, docker>>
  /\ UNCHANGED pipelineVars
  /\ UNCHANGED peripheryButFunctions

\* the loop head: the loop condition, the check of the clock and the call
\* of fn; after the loop, throw lastErr
retryAttempt ==
  /\ retryRun.pc = "top"
  /\ IF retryRun.attempt > retryRun.retries
       THEN retryRun' = [retryRun EXCEPT !.pc = "done", !.outcome = "threw",
              !.thrown = IF retryRun.lastErr = 0 THEN "undefined" ELSE "lastErr"]
       ELSE IF retryRun.elapsed > retryRun.timeoutMs
       THEN retryRun' = [retryRun EXCEPT !.pc = "done", !.outcome = "threw",
                                         !.thrown = "timeout"]
       ELSE retryRun' = [retryRun EXCEPT !.pc = "running", !.invoked = @ + 1,
              !.late = @ \/ (retryRun.elapsed > retryRun.timeoutMs)]
  /\ UNCHANGED <<launch, rewrite, subdomainCheck, docker>>
  /\ UNCHANGED pipelineVars
  /\ UNCHANGED peripheryButFunctions

\* the awaited fn settles after some time: its result is returned, or its
\* error is kept and the loop goes on, after the delay unless this was the
\* last attempt
fnSettles ==
  /\ retryRun.pc = "running"
  /\ \E d \in 0..MaxFnTime, ok \in BOOLEAN :
       retryRun' =
         IF ok
           THEN [retryRun EXCEPT !.elapsed = @ + d, !.pc = "done",
                                 !.outcome = "returned", !.succeeded = @ + 1]
           ELSE [retryRun EXCEPT !.elapsed = @ + d, !.lastErr = retryRun.attempt,
                   !.pc = IF retryRun.attempt < retryRun.retries THEN "delay" ELSE "top",
                   !.attempt = IF retryRun.attempt < retryRun.retries THEN @ ELSE @ + 1]
  /\ UNCHANGED <<launch, rewrite, subdomainCheck, docker>>
  /\ UNCHANGED pipelineVars
  /\ UNCHANGED peripheryButFunctions

\* setTimeout(r, delayMs) fires and the next iteration begins
retryDelay ==
  /\ retryRun.pc = "delay"
  /\ retryRun' = [retryRun EXCEPT !.elapsed = @ + DelayTicks, !.attempt = @ + 1,
                                  !.pc = "top"]
  /\ UNCHANGED <<launch, rewrite, subdomainCheck, docker>>
  /\ UNCHANGED pipelineVars
  /\ UNCHANGED peripheryButFunctions

InitRetry ==
  /\ PipelineIdle
  /\ BuildsIdle
  /\ FanoutIdle /\ InstallIdle /\ CloneIdle /\ LaunchIdle /\ RewriteIdle /\ CheckIdle
  /\ DockerIdle
  /\ retryRun \in {[NoRetry EXCEPT !.pc = "top", !.attempt = 1, !.retries = n,
                                   !.timeoutMs = t] :
                     n \in 0..MaxTries, t \in 0..MaxBudget}

NextRetry ==
  \/ retryAttempt
  \/ fnSettles
  \/ retryDelay

SpecRetry == InitRetry /\ [][NextRetry]_vars

(***************************************************************************)
(* Deploy Engine (Go), container mode: containers and log followers        *)
(*                                                                         *)
(* docker.container[p]    a container named after project p runs           *)
(* docker.followers       the `docker logs -f` processes started so far;   *)
(*                        a cancel function is the index of its process    *)
(* docker.logStreamers[p] the cancel function stored for p, 0 for none     *)
(* docker.reqs            the calls of Deploy, Stop and Cleanup, each in   *)
(*                        its own goroutine; `left` is the number of       *)
(*                        followers of the project alive when Stop or      *)
(*                        Cleanup returned                                 *)
(* docker.recovered       recoverDockerLogs has run                        *)
(* A follower ends when cancel kills it or when its container stops.       *)
(***************************************************************************)
\* the followers of project p that run
Alive(fs, p) == {f \in DOMAIN fs : fs[f].project = p /\ fs[f].alive}

\* the container of p stops: `docker logs -f` on it ends
EndFollowers(fs, p) ==
  [f \in DOMAIN fs |-> IF fs[f].project = p THEN [fs[f] EXCEPT !.alive = FALSE] ELSE fs[f]]

\* request slots are taken in order
FreshDockerReq(r) ==
  /\ docker.reqs[r].pc = "idle"
  /\ IF r = 1 THEN TRUE ELSE docker.reqs[r - 1].pc # "idle"

DockerFrame ==
  /\ UNCHANGED <<launch, rewrite, subdomainCheck, retryRun>>
  /\ UNCHANGED pipelineVars
  /\ UNCHANGED peripheryButFunctions

\* where a request goes on after StopLogStreaming returned
AfterStopLogStreaming(r) == IF docker.reqs[r].op = "deploy" THEN "spawn" ELSE "remove"

\* DockerService.Deploy: EnsureContainerStopped, then BuildImage
Deploy(r, p) ==
  /\ FreshDockerReq(r)
  /\ docker' = [docker EXCEPT !.reqs[r] = [NoDockerReq EXCEPT !.pc = "run", !.op = "deploy",
                                                             !.project = p],
                              !.container[p] = FALSE,
                              !.followers = EndFollowers(@, p)]
  /\ DockerFrame

\* DockerService.Deploy: BuildImage failed, or RunContainer, which fails
\* when the container name is taken
DeployRun(r) ==
  LET p == docker.reqs[r].project IN
  /\ docker.reqs[r].pc = "run"
  /\ \/ /\ ~ docker.container[p]
        /\ docker' = [docker EXCEPT !.container[p] = TRUE, !.reqs[r].pc = "health"]
     \/ docker' = [docker EXCEPT !.reqs[r].pc = "done"]
  /\ DockerFrame

\* DockerService.Deploy: WaitForHealthy on the host port; on failure
\* StopAndRemoveContainer and return
DeployHealth(r) ==
  LET p == docker.reqs[r].project IN
  /\ docker.reqs[r].pc = "health"
  /\ \/ /\ docker.container[p]
        /\ docker' = [docker EXCEPT !.reqs[r].pc = "load"]
     \/ docker' = [docker EXCEPT !.container[p] = FALSE,
                                 !.followers = EndFollowers(@, p),
                                 !.reqs[r].pc = "done"]
  /\ DockerFrame

\* StopLogStreaming: logStreamers.Load and, for an entry found, cancel()
StopLogStreaming(r) ==
  LET p == docker.reqs[r].project
      f == docker.logStreamers[p] IN
  /\ docker.reqs[r].pc = "load"
  /\ IF f = 0
       THEN docker' = [docker EXCEPT !.reqs[r].pc = AfterStopLogStreaming(r)]
       ELSE docker' = [docker EXCEPT !.followers[f].alive = FALSE,
                                     !.reqs[r].pc = "delete"]
  /\ DockerFrame

\* StopLogStreaming: logStreamers.Delete
StopLogStreamingDelete(r) ==
  LET p == docker.reqs[r].project IN
  /\ docker.reqs[r].pc = "delete"
  /\ docker' = [docker EXCEPT !.logStreamers[p] = 0,
                              !.reqs[r].pc = AfterStopLogStreaming(r)]
  /\ DockerFrame

\* StartLogStreaming: StreamContainerLogs starts `docker logs -f` on the
\* container of the project, which ends at once when there is none
StreamContainerLogs(r) ==
  LET p == docker.reqs[r].project IN
  /\ docker.reqs[r].pc = "spawn"
  /\ docker' = [docker EXCEPT !.followers = Append(@, [project |-> p,
                                                       alive |-> docker.container[p]]),
                              !.reqs[r].cancel = Len(docker.followers) + 1,
                              !.reqs[r].pc = "store"]
  /\ DockerFrame

\* StartLogStreaming: logStreamers.Store, and Deploy returns
StartLogStreamingStore(r) ==
  LET p == docker.reqs[r].project IN
  /\ docker.reqs[r].pc = "store"
  /\ docker' = [docker EXCEPT !.logStreamers[p] = docker.reqs[r].cancel,
                              !.reqs[r].pc = "done"]
  /\ DockerFrame

\* DockerService.Stop begins
Stop(r, p) ==
  /\ FreshDockerReq(r)
  /\ docker' = [docker EXCEPT !.reqs[r] = [NoDockerReq EXCEPT !.pc = "load", !.op = "stop",
                                                             !.project = p]]
  /\ DockerFrame

\* DockerService.Cleanup begins
Cleanup(r, p) ==
  /\ FreshDockerReq(r)
  /\ docker' = [docker EXCEPT !.reqs[r] = [NoDockerReq EXCEPT !.pc = "load", !.op = "cleanup",
                                                             !.project = p]]
  /\ DockerFrame

\* Stop: StopAndRemoveContainer; Cleanup: EnsureContainerStopped and
\* RemoveImage.  The removal succeeds or fails; the call returns.
StopAndRemoveContainer(r) ==
  LET p == docker.reqs[r].project IN
  /\ docker.reqs[r].pc = "remove"
  /\ \E ok \in BOOLEAN :
       LET fs == IF ok THEN EndFollowers(docker.followers, p) ELSE docker.followers IN
       docker' = [docker EXCEPT !.container[p] = IF ok THEN FALSE ELSE @,
                                !.followers = fs,
                                !.reqs[r].left = Cardinality(Alive(fs, p)),
                                !.reqs[r].pc = "done"]
  /\ DockerFrame

\* Server.Start: the goroutine that runs recoverDockerLogs, which prints a
\* line.  DockerService.RecoverLogStreams (ListRunningContainers, then
\* StartLogStreaming for each) has no caller in the engine.
recoverDockerLogs ==
  /\ ~ docker.recovered
  /\ docker' = [docker EXCEPT !.recovered = TRUE]
  /\ DockerFrame

\* the engine starts with use_docker set; containers started by an earlier
\* run of the engine may be running
InitDocker ==
  /\ PipelineIdle
  /\ BuildsIdle
  /\ FanoutIdle /\ InstallIdle /\ CloneIdle /\ LaunchIdle /\ RewriteIdle /\ CheckIdle
  /\ RetryIdle
  /\ docker \in {[NoDocker EXCEPT !.container = c] : c \in [Projects -> BOOLEAN]}

NextDocker ==
  \/ \E r \in DockerReqIds, p \in Projects : Deploy(r, p)
  \/ \E r \in DockerReqIds : DeployRun(r)
  \/ \E r \in DockerReqIds : DeployHealth(r)
  \/ \E r \in DockerReqIds : StopLogStreaming(r)
  \/ \E r \in DockerReqIds : StopLogStreamingDelete(r)
  \/ \E r \in DockerReqIds : StreamContainerLogs(r)
  \/ \E r \in DockerReqIds : StartLogStreamingStore(r)
  \/ \E r \in DockerReqIds, p \in Projects : Stop(r, p)
  \/ \E r \in DockerReqIds, p \in Projects : Cleanup(r, p)
  \/ \E r \in DockerReqIds : StopAndRemoveContainer(r)
  \/ recoverDockerLogs

SpecDocker == InitDocker /\ [][NextDocker]_vars

(***************************************************************************)
(* Properties of activation and stop                                       *)
(***************************************************************************)
InProgress(p) ==
  \E c \in CallIds : calls[c].project = p /\ calls[c].kind # "none" /\ ~ Finished(c)

\* C1: for every project at most one Deployment row is active in every
\* committed state of the deployments table
C1_AtMostOneActive ==
  \A p \in Projects : Cardinality(ActiveDeployments(p)) <= 1

\* C3: whenever no activate or stop is in progress for a project, the build
\* of its active Deployment row is the build `current` points to
C3_ActiveMatchesCurrent ==
  \A p \in Projects :
    ~ InProgress(p) =>
      \A d \in ActiveDeployments(p) : deployments[d].build_id = current[p]

\* C4: no two requests for the same project are inside the Deploy Engine at
\* the same time
C4_EngineMutualExclusion ==
  \A c1, c2 \in CallIds :
    (c1 # c2 /\ InEngine(c1) /\ InEngine(c2)) => calls[c1].project # calls[c2].project

\* C7: once `current` exists, every step leaves it resolving to an existing
\* extract directory that is either the prior target or the directory of a
\* build whose activation is inside the engine
C7_SymlinkAtomic ==
  [][\A p \in Projects :
       current[p] # 0 =>
         /\ current'[p] # 0
         /\ current'[p] \in extracted'
         /\ \/ current'[p] = current[p]
            \/ \E c \in CallIds : /\ InEngine(c)
                                  /\ calls[c].project = p
                                  /\ calls[c].build = current'[p]]_vars

\* a rotation has replaced an existing `current` by another build's directory
C7_Witness ==
  \E c1, c2 \in CallIds :
    /\ c1 # c2
    /\ calls[c1].kind = "activate" /\ calls[c2].kind = "activate"
    /\ calls[c1].project = calls[c2].project
    /\ calls[c1].build # calls[c2].build
    /\ calls[c1].pc = "done"
    /\ calls[c2].pc \in {"kill", "resolve"}
    /\ current[calls[c2].project] = calls[c2].build

\* C8: when the health check of an activation fails while another build was
\* the running version at its start, `current` resolves to that build again
\* and that build serves the port
C8_RollbackOnHealthFailure ==
  [][\A c \in CallIds :
       (calls[c].pc = "health" /\ calls'[c].pc = "failed"
          /\ calls[c].prev # 0 /\ calls[c].prev # calls[c].build)
       => /\ current'[calls[c].project] = calls[c].prev
          /\ Serving(calls[c].project)' = calls[c].prev]_vars

\* C9: a request reaches the transaction that marks the deployment active
\* only after a health check passed during that activation
C9_ActiveOnlyAfterHealthCheck ==
  \A c \in CallIds :
    (calls[c].kind = "activate" /\ calls[c].pc \in {"tx_update", "tx_insert", "done"})
      => calls[c].healthPassed

\* C13: every Deployment row belongs to a build whose status is success
C13_OnlySuccessfulBuildsDeployed ==
  \A d \in DOMAIN deployments : builds[deployments[d].build_id].status = "success"

(***************************************************************************)
(* Properties of the build pipeline                                        *)
(***************************************************************************)
\* C2: once the status of a build is success or failed, no step changes it
C2_TerminalIsFinal ==
  [][\A b \in DOMAIN builds :
       builds[b].status \in Terminal => builds'[b].status = builds[b].status]_vars

\* C10: at no time are two invocations of Builder.execute in progress in
\* the worker process
C10_OneExecuteAtATime ==
  \A e1, e2 \in ExecIds : (Running(e1) /\ Running(e2)) => e1 = e2

\* C11: for every project at most one build has status building
C11_OneBuildingPerProject ==
  \A p \in Projects :
    Cardinality({b \in DOMAIN builds :
                   builds[b].project_id = p /\ builds[b].status = "building"}) <= 1

\* C12: the step in which the auto-activation of a build fails leaves the
\* status of the build as it was and leaves an entry of level error in the
\* log stream of the build
C12_ActivationFailureLogged ==
  [][\A e \in ExecIds :
       (execs[e].pc = "activating" /\ execs'[e].activation = "failed")
       => /\ builds'[execs[e].build].status = builds[execs[e].build].status
          /\ \E l \in buildLogs' : l.build_id = execs[e].build /\ l.level = "error"]_vars

\* C14: the step in which build creation handles a failed queue submission
\* leaves the build failed with completed_at set and no job for it in the queue
C14_SubmitFailureMarksFailed ==
  [][\A b \in DOMAIN creates :
       (creates[b].pc \in {"added", "add_failed"} /\ creates'[b].pc = "submit_failed")
       => /\ builds'[b].status = "failed"
          /\ builds'[b].completed
          /\ jobs'[b].state = "none"]_vars

(***************************************************************************)
(* Properties of the push handler                                          *)
(***************************************************************************)
\* C5: for every project and commit SHA at most one build with that
\* (project_id, commit_sha) exists
C5_OneBuildPerCommit ==
  \A p \in Projects, sha \in Shas \ {0} : Cardinality(existingBuild(p, sha)) <= 1

\* a delivery that repeats the payload of a completed delivery has returned
Replayed(d) == deliveries[d].pc = "done" /\ deliveries[d].replays # {}

\* the response of d: no build triggered or created, every connected project skipped
AllSkipped(d) ==
  /\ deliveries[d].triggered = 0
  /\ deliveries[d].created = {}
  /\ deliveries[d].skipped = Len(deliveries[d].connected)

C15_PortsDistinct ==
  \A p1, p2 \in Projects :
    (p1 # p2 /\ projects[p1].exists /\ projects[p2].exists)
      => projects[p1].port # projects[p2].port

\* two creations that read the same maximum have both inserted their project
C15_Witness ==
  \E r1, r2 \in PReqIds :
    /\ r1 # r2
    /\ preqs[r1].outcome = "created" /\ preqs[r2].outcome = "created"
    /\ preqs[r1].maxSeen = preqs[r2].maxSeen
    /\ projects[preqs[r1].project].exists /\ projects[preqs[r2].project].exists

\* the smallest port from base on that is above the maximum the creation
\* read and that the engine did not report as taken during the creation
SmallestFree(q, base) ==
  LET ok(n) == n >= base /\ n > q.maxSeen /\ n \notin q.rejected IN
  CHOOSE n \in PortRange \cup {0} :
    IF \E m \in PortRange : ok(m)
      THEN ok(n) /\ \A m \in PortRange : ok(m) => n <= m
      ELSE n = 0

\* the port a creation inserts is the one the engine reported free and is
\* the smallest free port from base on
AssignsSmallestFree(base) ==
  \A r \in PReqIds :
    (preqs[r].pc = "insert" /\ preqs'[r].outcome = "created")
      => /\ projects'[preqs[r].project].port = preqs[r].reportedFree
         /\ projects'[preqs[r].project].port = SmallestFree(preqs[r], base)

C17_UnreachableCreatesNothing ==
  [][\A r \in PReqIds :
       /\ (preqs[r].pc = "port_check" /\ preqs'[r].outcome = "unreachable")
            => /\ preqs'[r].pc = "failed"
               /\ projects' = projects
               /\ envVars' = envVars
       /\ preqs[r].outcome = "unreachable" => preqs'[r] = preqs[r]]_vars

\* a creation with environment variables failed on an unreachable engine
\* after it had probed a port
C17_Witness ==
  \E r \in PReqIds :
    /\ preqs[r].outcome = "unreachable"
    /\ preqs[r].env
    /\ preqs[r].rejected # {}

\* C18: a step that removes environment variables, deployments or builds of
\* a project removes the project row in the same step
C18_DeleteAtomic ==
  [][\A p \in Projects :
       (\/ EnvVarsOf(p)' # EnvVarsOf(p) /\ EnvVarsOf(p)' \subseteq EnvVarsOf(p)
        \/ DeploymentsOf(p)' # DeploymentsOf(p) /\ DeploymentsOf(p)' \subseteq DeploymentsOf(p)
        \/ BuildsOf(p)' # BuildsOf(p) /\ BuildsOf(p)' \subseteq BuildsOf(p))
       => ~ projects'[p].exists]_vars

(***************************************************************************)
(* Properties of the log path                                              *)
(***************************************************************************)
\* C19: every persisted log entry has one of the five levels
C19_PersistedLevelsValid ==
  \A l \in buildLogs : l.level \in LogLevels

\* C20: of two requests with the same level, the one issued later carries
\* no entry that was streamed before an entry of the one issued earlier
C20_PerLevelOrder ==
  \A i, j \in DOMAIN posts :
    (i < j /\ posts[i].level = posts[j].level)
      => \A a \in DOMAIN posts[i].ids, b \in DOMAIN posts[j].ids :
           posts[i].ids[a] < posts[j].ids[b]

(***************************************************************************)
(* Properties of the log fan-out                                           *)
(***************************************************************************)
\* the LogEntry of a published message is in build_logs
EntryPersisted(m) == Log(m.buildId, m.level, m.data) \in buildLogs

\* C21: a log message is published to the topic of its build only after its
\* LogEntry has been persisted, it is delivered only to sockets subscribed to
\* that build, and a socket never receives a message published before it
\* joined the room.
C21_PublishedAfterPersisted ==
  /\ \A n \in DOMAIN published : EntryPersisted(published[n].msg)
  /\ \A s \in Sockets : \A i \in DOMAIN inbox[s] :
       /\ inbox[s][i].n \in DOMAIN published
       /\ published[inbox[s][i].n].msg = inbox[s][i].msg
       /\ s \in published[inbox[s][i].n].members
       /\ inbox[s][i].msg.buildId \in rooms[s]

(***************************************************************************)
(* Properties of installation events                                       *)
(***************************************************************************)
\* the handling of event w ends in this step
EventEnds(w) ==
  /\ installEvents[w].pc \notin {"done", "failed"}
  /\ installEvents'[w].pc \in {"done", "failed"}

\* C22: when the handling of an installation / deleted event ends, the row of
\* that installation no longer exists and no project references it, also
\* when a project referenced the installation at the time of the event.
C22_InstallationDeleted ==
  [][\A w \in InstallEventIds :
       (EventEnds(w) /\ installEvents'[w].action = "deleted")
         => /\ installEvents'[w].installation \notin installations'
            /\ \A p \in Projects : installOf'[p] # installEvents'[w].installation]_vars

(***************************************************************************)
(* Properties of the push handler's selection of projects                  *)
(***************************************************************************)
\* delivery d inserts a build in this step
CreatesBuild(d) == deliveries'[d].created # deliveries[d].created

\* the handling of delivery d returns in this step
Returns(d) == deliveries[d].pc \notin {"idle", "done"} /\ deliveries'[d].pc = "done"

\* project p qualifies for a build of the payload of delivery d: branch and
\* auto_deploy match and, for a payload with a commit SHA, no build of the
\* project carries that SHA
Qualifies(d, p) ==
  /\ BranchOf(p) = deliveries[d].branch
  /\ AutoDeploy(p)
  /\ deliveries[d].sha # 0 => existingBuild(p, deliveries[d].sha) = {}

\* C23: a push event creates a build for exactly the projects whose
\* repository and branch match, whose auto_deploy is true and for which no
\* build with the same (project_id, commit_sha) exists: a build is inserted
\* only for a project that qualifies at that moment, and when the handler
\* returns without a creation error every connected project with auto_deploy
\* has a build of that commit.
C23_BuildsExactlyForMatching ==
  [][\A d \in DeliveryIds :
       /\ CreatesBuild(d) => Qualifies(d, deliveries[d].connected[deliveries[d].idx])
       /\ (Returns(d) /\ deliveries'[d].errors = 0) =>
            \A i \in DOMAIN deliveries'[d].connected :
              LET p == deliveries'[d].connected[i] IN
              AutoDeploy(p) =>
                \E b \in DOMAIN builds' : /\ builds'[b].project_id = p
                                          /\ builds'[b].commit_sha = deliveries'[d].sha]_vars

(***************************************************************************)
(* Properties of the signature check                                       *)
(***************************************************************************)
\* the handler receives event w in this step
Received(w) == installEvents[w].pc = "idle" /\ installEvents'[w].pc # "idle"

\* C24 as stated: a webhook request whose signature header is missing or is
\* not the HMAC-SHA256 of the raw body is answered with 401 and changes no
\* table and no queue
C24_BadSignature401 ==
  [][\A w \in InstallEventIds :
       (Received(w) /\ installEvents'[w].bad) =>
         /\ installEvents'[w].status = 401
         /\ installEvents'[w].pc = "rejected"
         /\ UNCHANGED <<installations, installOf, projects, builds, jobs>>]_vars

\* C24 amended: the answer is 401, or 500 when a signature header is present
\* and GITHUB_WEBHOOK_SECRET is not set; in both cases nothing changes
C24_BadSignatureRejected ==
  [][\A w \in InstallEventIds :
       (Received(w) /\ installEvents'[w].bad) =>
         /\ installEvents'[w].status \in {401, 500}
         /\ installEvents'[w].status = 500 => webhookSecret = 0
         /\ installEvents'[w].pc = "rejected"
         /\ UNCHANGED <<installations, installOf, projects, builds, jobs>>]_vars

\* a request signed with another key was answered 401 and a correctly signed
\* one was processed
C24_Witness ==
  /\ \E w \in InstallEventIds :
       installEvents[w].pc = "rejected" /\ installEvents[w].status = 401
  /\ \E w \in InstallEventIds :
       installEvents[w].pc = "done" /\ ~ installEvents[w].bad

(***************************************************************************)
(* Properties of what a build logs                                         *)
(***************************************************************************)
\* C25: the installation access token never appears in a log entry streamed
\* for a build: two runs that differ only in the token send the same
\* sequence of log messages, also when the clone fails and its error message
\* is logged.
C25_LogsIndependentOfToken ==
  (\A r \in Runs : cloneRuns[r].pc = "done") => cloneRuns[1].logs = cloneRuns[2].logs

(***************************************************************************)
(* Properties of the launched application's environment                    *)
(***************************************************************************)
\* the port the platform assigned to the launch
AssignedPort == IF launch.engine = "docker" THEN InternalPort ELSE ProjectPort

\* C26: the launched application runs with PORT equal to the port the
\* platform assigned (the project port for a process, the internal port for
\* a container) and with NODE_ENV=production, also when the project's
\* environment variables define PORT or NODE_ENV.
C26_PortAndNodeEnvForced ==
  launch.engine # "none" =>
    /\ Effective(launch.env, "PORT") = AssignedPort
    /\ Effective(launch.env, "NODE_ENV") = "production"

(***************************************************************************)
(* Properties of completed_at                                              *)
(***************************************************************************)
\* C27: in every committed state reached by build creation and status
\* updates, a build's completed_at is non-null if and only if its status is
\* success or failed.
C27_CompletedIffTerminal ==
  \A b \in DOMAIN builds : builds[b].completed <=> builds[b].status \in Terminal

\* a failed build was taken up again and is building, and another build
\* was marked failed when its submission failed
C27_Witness ==
  /\ \E b \in DOMAIN builds :
       /\ builds[b].status = "building"
       /\ \E e \in ExecIds : execs[e].build = b /\ execs[e].pc = "done"
  /\ \E b \in DOMAIN builds : builds[b].status = "failed"

(***************************************************************************)
(* Properties of the package-manager rewrite                               *)
(***************************************************************************)
\* C28: the package-manager rewrite is idempotent: rewriting a rewritten
\* command gives the rewritten command.
C28_RewriteIdempotent ==
  rewrite.applied = 2 => rewrite.twice = rewrite.once

\* a chained command one of whose parts was rewritten, rewritten twice
C28_Witness ==
  /\ rewrite.applied = 2
  /\ Len(split(rewrite.command, << >>)) >= 2
  /\ rewrite.once # rewrite.command
  /\ \E k \in 1..Len(rewrite.once) : rewrite.once[k] = "bun"

(***************************************************************************)
(* Properties of the subdomain test                                        *)
(***************************************************************************)
\* C29: a subdomain is accepted if and only if it matches
\* ^[a-z0-9](?:[a-z0-9-]*[a-z0-9])?$ and is not a reserved name; every other
\* string, with upper-case letters or surrounding whitespace, is rejected.
C29_AcceptedIffValid ==
  subdomainCheck.checked =>
    LET s == subdomainCheck.sub
        matches == /\ Len(s) >= 1
                   /\ \A k \in 1..Len(s) : s[k] \in {"d", "b", "1", "-"}
                   /\ s[1] # "-" /\ s[Len(s)] # "-"
    IN subdomainCheck.allowed <=> (matches /\ s \notin reservedSubdomains)

(***************************************************************************)
(* Properties of a failed activation                                       *)
(***************************************************************************)
\* C30: if the Deploy Engine rejects or fails an activation request,
\* activateBuild throws and leaves table deployments unchanged: the
\* previously active deployment stays active and no row is inserted.  Every
\* step of an activateBuild leaves the table as it is, except the commit with
\* which a call returns; a call that has thrown takes no further step, and
\* neither does one that has returned.
C30_FailedActivationNoChange ==
  [][\A c \in CallIds :
       calls'[c].kind = "activate" =>
         /\ (calls'[c] # calls[c] /\ calls'[c].pc # "done")
              => deployments' = deployments
         /\ Finished(c) => calls'[c] = calls[c]]_vars

\* the engine failed an activation while the project's earlier deployment
\* is the active one
C30_Witness ==
  \E c \in CallIds :
    /\ calls[c].kind = "activate"
    /\ calls[c].pc = "failed"
    /\ \E d \in ActiveDeployments(calls[c].project) :
         deployments[d].build_id # calls[c].build
    /\ Len(deployments) = 1

(***************************************************************************)
(* Properties of an activation without artifact                            *)
(***************************************************************************)
\* C31: activating a build whose artifact file is absent fails before any
\* change is made: every step of such a call leaves the project's `current`
\* symlink, current_build_id, server.pid and running process as they were,
\* and the call goes from the artifact check straight to its failure.
C31_MissingArtifactNoChange ==
  [][\A c \in CallIds :
       (/\ calls'[c].kind = "activate"
        /\ calls'[c].build \notin artifacts
        /\ calls'[c] # calls[c])
       => /\ calls'[c].pc \in {"extract", "failed"}
          /\ \A p \in Projects :
               calls'[c].project = p =>
                 /\ current'[p] = current[p]
                 /\ currentBuildId'[p] = currentBuildId[p]
                 /\ pidFile'[p] = pidFile[p]
                 /\ listener'[p] = listener[p]
                 /\ Serving(p)' = Serving(p)]_vars

\* the activation of a build without artifact has failed while the project
\* runs an earlier build
C31_Witness ==
  \E c \in CallIds :
    LET p == calls[c].project IN
    /\ calls[c].kind = "activate"
    /\ calls[c].pc = "failed"
    /\ calls[c].build \notin artifacts
    /\ current[p] # 0
    /\ pidFile[p] # 0
    /\ Serving(p) = current[p]

(***************************************************************************)
(* Properties of the process hand-over                                     *)
(***************************************************************************)
\* C32: in process mode the new process is spawned only after the prior
\* process recorded in server.pid has been signalled, the pid file removed
\* and the port observed free; when the port is not observed free the
\* activation fails without spawning.  Step by step: the kill step leaves no
\* pid file and the process it recorded no longer serves the port; a call
\* comes to its spawn only from the port check, with the port free; a port
\* check that finds the port taken ends the call.
C32_SpawnAfterKillAndPortFree ==
  [][\A c \in CallIds : \A p \in Projects :
       (calls[c].kind = "activate" /\ calls[c].project = p) =>
         /\ (calls[c].pc = "kill" /\ calls'[c].pc # "kill")
              => /\ calls'[c].pc = "portfree"
                 /\ pidFile'[p] = 0
                 /\ pidFile[p] # 0 => listener'[p] # pidFile[p]
         /\ (calls[c].pc # "spawn" /\ calls'[c].pc = "spawn")
              => calls[c].pc = "portfree" /\ listener[p] = 0
         /\ (calls[c].pc = "portfree" /\ listener[p] # 0 /\ calls'[c] # calls[c])
              => calls'[c].pc = "failed"
         /\ (calls[c].pc # "health" /\ calls'[c].pc = "health")
              => calls[c].pc = "spawn"]_vars

(***************************************************************************)
(* Properties of the worker's status reports                               *)
(***************************************************************************)
\* C33: the worker reports success for a build only after the artifact
\* upload returned OK; an execution in which token, clone, install, build,
\* packaging or upload failed reports failed and never reports success.
C33_SuccessOnlyAfterUpload ==
  [][\A e \in ExecIds :
       /\ (execs[e].pc = "put_success" /\ execs'[e].pc # "put_success")
            => execs[e].build \in artifacts /\ ~ execs[e].threw
       /\ (execs'[e].threw /\ execs'[e] # execs[e])
            => /\ execs'[e].pc \in {"put_failed", "finally", "done"}
               /\ execs'[e].pc = "finally" => execs[e].pc = "put_failed"]_vars

\* an execution whose work failed has reported failed and is over, and the
\* Deploy Engine holds no artifact of its build
C33_Witness ==
  \E e \in ExecIds :
    /\ execs[e].pc = "done"
    /\ execs[e].threw
    /\ builds[execs[e].build].status = "failed"
    /\ execs[e].build \notin artifacts

C36_EachEntrySentOnce ==
  \A id \in 1..streamer.streamed :
    LET sent == {i \in DOMAIN posts : \E k \in DOMAIN posts[i].ids : posts[i].ids[k] = id}
        buffered == \E k \in DOMAIN streamer.entries : streamer.entries[k].id = id
        pending == \E f \in FlushIds :
                     /\ flushes[f].pc = "awaiting"
                     /\ \E g \in DOMAIN flushes[f].groups :
                          /\ g > flushes[f].idx
                          /\ \E k \in DOMAIN flushes[f].groups[g].ids :
                               flushes[f].groups[g].ids[k] = id
    IN /\ Cardinality(sent) <= 1
       /\ sent = {} => buffered \/ pending


\* C37: Builder.execute runs at most once for any build id: no build has two
\* executions, whether started by the queue worker or by POST /build.
C37_ExecuteAtMostOnce ==
  \A b \in DOMAIN builds :
    Cardinality({e \in ExecIds : execs[e].pc # "idle" /\ execs[e].build = b}) <= 1


\* C38: every build created with status pending eventually has status
\* success or failed, when the queue delivers its job and the worker keeps
\* running, whatever the outcome of the worker's status PUT requests.
C38_PendingEventuallyTerminal ==
  \A b \in 1..MaxBuilds :
    (b \in DOMAIN builds /\ builds[b].status = "pending")
      ~> (b \in DOMAIN builds /\ builds[b].status \in {"success", "failed"})


\* C39: in container mode at most one log follower of a project is alive at
\* any time, and none is alive when Stop or Cleanup of the project has
\* returned, with calls for one project running concurrently.
C39_OneFollowerPerProject ==
  /\ \A p \in Projects : Cardinality(Alive(docker.followers, p)) <= 1
  /\ \A r \in DockerReqIds :
       (docker.reqs[r].pc = "done" /\ docker.reqs[r].op \in {"stop", "cleanup"})
         => docker.reqs[r].left = 0

\* C40: when startup recovery has run, every container that carries the
\* thakur.projectId label and runs has a log follower registered and alive.
C40_RecoveryRegistersFollowers ==
  [][(~ docker.recovered /\ docker'.recovered)
       => \A p \in Projects :
            docker'.container[p]
              => /\ docker'.logStreamers[p] # 0
                 /\ docker'.followers[docker'.logStreamers[p]].alive]_vars

====
